---- MODULE Spec2Model ----
(***************************************************************************)
(* A model of IDAMetrics_static.py: the per-routine analysis               *)
(* (Metrics_function.start_analysis and its helpers) and the module-level   *)
(* orchestrator (Metrics.start_analysis, collect_total_metrics,             *)
(* collect_final_metrics).                                                  *)
(*                                                                         *)
(* The disassembler database the script reads through idc / idautils /      *)
(* ida_bytes is the input: it is the variable db, chosen in Init and never  *)
(* changed.  Every address 0 .. db.top-1 is an item head.                   *)
(***************************************************************************)
EXTENDS Integers, Sequences, FiniteSets, TLC

VARIABLES
    db,               \* the disassembler database (input)
    metrics_mask,     \* Metrics.metrics_mask
    pc,               \* position of Metrics.start_analysis
    seg_i,            \* index of the segment the for loop is at
    function_ea,      \* the while loop's function_ea
    functions,        \* Metrics.functions: name -> Metrics_function fields
    totals,           \* the *_total fields of Metrics
    global_vars_dict, \* the module-level global_vars_dict
    cur,              \* the structures of the routine analysed by the last step
    outcomes          \* address -> what Metrics_function.start_analysis does there

vars == <<db, metrics_mask, pc, seg_i, function_ea, functions, totals,
          global_vars_dict, cur, outcomes>>

(***************************************************************************)
(* Bounds of the model.                                                    *)
(***************************************************************************)
\* number of instruction addresses of a routine drawn by InitCFG
MaxAddr == 4

\* idaapi.BADADDR: larger than every address (all ones in the model's width)
BADADDR == (2 ^ 16) - 1

(***************************************************************************)
(* Small helpers over sets, sequences and dictionaries.                    *)
(***************************************************************************)
Max(S) == CHOOSE x \in S : \A y \in S : y <= x
Min(S) == CHOOSE x \in S : \A y \in S : x <= y

\* the ascending enumeration of a finite set of integers
RECURSIVE SortedSeq(_)
SortedSeq(S) == IF S = {} THEN <<>> ELSE <<Min(S)>> \o SortedSeq(S \ {Min(S)})

\* some enumeration of a finite set
RECURSIVE SetToSeq(_)
SetToSeq(S) == IF S = {} THEN <<>>
               ELSE LET x == CHOOSE y \in S : TRUE IN <<x>> \o SetToSeq(S \ {x})

RECURSIVE SumSeq(_)
SumSeq(s) == IF s = <<>> THEN 0 ELSE Head(s) + SumSeq(Tail(s))

Range(s) == {s[i] : i \in 1..Len(s)}

\* dict.get(k, dflt)
Get(d, k, dflt) == IF k \in DOMAIN d THEN d[k] ELSE dflt
\* d[k] = v
Put(d, k, v) == [x \in DOMAIN d \cup {k} |-> IF x = k THEN v ELSE d[x]]
\* the empty dict
EmptyDict == [x \in {} |-> 0]

\* hex(a): the string the script uses for an address in edges and blocks
HexTable == <<"0x0", "0x1", "0x2", "0x3", "0x4", "0x5", "0x6", "0x7",
              "0x8", "0x9", "0xa", "0xb", "0xc", "0xd", "0xe", "0xf",
              "0x10", "0x11", "0x12", "0x13", "0x14", "0x15", "0x16", "0x17",
              "0x18", "0x19", "0x1a", "0x1b", "0x1c", "0x1d", "0x1e", "0x1f">>
Hex(a) == IF a = BADADDR THEN "0xffff" ELSE HexTable[a + 1]
\* int(s, 16)
UnHex(s) == IF s = "0xffff" THEN BADADDR
            ELSE (CHOOSE i \in 1..Len(HexTable) : HexTable[i] = s) - 1

(***************************************************************************)
(* The interface to the database (idc, idautils, ida_bytes, ida_idp).      *)
(***************************************************************************)
o_void == 0
o_reg == 1
o_mem == 2
o_phrase == 3
o_displ == 4
o_imm == 5
o_far == 6
o_near == 7

Heads(d, lo, hi) == {a \in 0..(d.top - 1) : lo <= a /\ a < hi}

\* idc.next_head(ea, maxea): the next head in (ea, maxea), else BADADDR
next_head(d, ea, maxea) ==
    LET S == {a \in 0..(d.top - 1) : ea < a /\ a < maxea}
    IN  IF S = {} THEN BADADDR ELSE Min(S)

\* idc.prev_head(ea, minea): the previous head in [minea, ea), else BADADDR
prev_head(d, ea, minea) ==
    LET S == {a \in 0..(d.top - 1) : minea <= a /\ a < ea}
    IN  IF S = {} THEN BADADDR ELSE Max(S)

\* is_code(ida_bytes.get_full_flags(ea))
is_code(d, ea) == ea \in 0..(d.top - 1) /\ d.ins[ea].code

\* is_flow(ida_bytes.get_full_flags(ea)): the instruction at ea is reached by
\* the ordinary flow of the instruction before it; BADADDR has no flags
is_flow(d, ea) ==
    /\ ea \in 1..(d.top - 1)
    /\ d.ins[ea].code
    /\ d.ins[ea - 1].code
    /\ ~d.ins[ea - 1].stop

\* idautils.CodeRefsFrom(ea, 0)
CodeRefsFrom(d, ea) == d.ins[ea].refs

\* idc.get_func_name(ea): "" when ea is in no function
InFunc(f, ea) == \E i \in 1..Len(f.chunks) : f.chunks[i][1] <= ea /\ ea < f.chunks[i][2]
FuncIdxAt(d, ea) == {i \in 1..Len(d.funcs) : InFunc(d.funcs[i], ea)}
get_func_name(d, ea) ==
    IF FuncIdxAt(d, ea) = {} THEN "" ELSE d.funcs[Min(FuncIdxAt(d, ea))].name

\* idc.get_next_func(ea): the start of the next function after ea
get_next_func(d, ea) ==
    LET S == {d.funcs[i].ea : i \in {j \in 1..Len(d.funcs) : d.funcs[j].ea > ea}}
    IN  IF S = {} THEN BADADDR ELSE Min(S)

\* Metrics_function.enumerate_function_chunks: the chunks of the function ea
\* lies in, the entry chunk first; [] when ea is in no function
enumerate_function_chunks(d, ea) ==
    IF FuncIdxAt(d, ea) = {} THEN <<>> ELSE d.funcs[Min(FuncIdxAt(d, ea))].chunks

\* idc.find_func_end(ea): the end of the function ea lies in; BADADDR when ea
\* is in no function and no function can be made there
find_func_end(d, ea) ==
    IF FuncIdxAt(d, ea) = {} THEN BADADDR ELSE d.funcs[Min(FuncIdxAt(d, ea))].chunks[1][2]

(***************************************************************************)
(* Text.  A string of the script (an operand, a mnemonic, a variable name,  *)
(* a line of disassembly) is modelled as the sequence of its characters,    *)
(* and the string operations of the script are computed on the characters.  *)
(***************************************************************************)
\* the words the databases are written with, spelled out
Spell ==
    ("eax" :> <<"e", "a", "x">>) @@ ("ebx" :> <<"e", "b", "x">>) @@
    ("esp" :> <<"e", "s", "p">>) @@ ("ebp" :> <<"e", "b", "p">>) @@
    ("var_4" :> <<"v", "a", "r", "_", "4">>) @@ ("var_8" :> <<"v", "a", "r", "_", "8">>) @@
    ("arg_0" :> <<"a", "r", "g", "_", "0">>) @@ ("arg_4" :> <<"a", "r", "g", "_", "4">>) @@
    ("arg" :> <<"a", "r", "g">>) @@ ("g1" :> <<"g", "1">>) @@ ("loc" :> <<"l", "o", "c">>) @@
    ("ds:" :> <<"d", "s", ":">>) @@ ("nop" :> <<"n", "o", "p">>) @@
    ("mov" :> <<"m", "o", "v">>) @@ ("cmp" :> <<"c", "m", "p">>) @@
    ("test" :> <<"t", "e", "s", "t">>) @@ ("ret" :> <<"r", "e", "t">>) @@
    ("retn" :> <<"r", "e", "t", "n">>) @@ ("jz" :> <<"j", "z">>) @@
    ("jmp" :> <<"j", "m", "p">>) @@ ("call" :> <<"c", "a", "l", "l">>) @@
    ("add" :> <<"a", "d", "d">>)

\* hex(n) as text
HexDigits == <<"0", "1", "2", "3", "4", "5", "6", "7",
               "8", "9", "a", "b", "c", "d", "e", "f">>
RECURSIVE HexDigitsOf(_)
HexDigitsOf(n) ==
    IF n < 16 THEN <<HexDigits[n + 1]>>
    ELSE HexDigitsOf(n \div 16) \o <<HexDigits[(n % 16) + 1]>>
HexText(n) == <<"0", "x">> \o HexDigitsOf(n)

\* s.count(c) for a character c
Count(s, c) == Cardinality({i \in 1..Len(s) : s[i] = c})
\* the 0-based positions at which sub occurs in s
Occurrences(s, sub) ==
    {i \in 0..(Len(s) - Len(sub)) : \A j \in 1..Len(sub) : s[i + j] = sub[j]}
\* s.find(sub), s.rfind(sub): 0-based, -1 when absent
Find(s, sub) == IF Occurrences(s, sub) = {} THEN -1 ELSE Min(Occurrences(s, sub))
RFind(s, sub) == IF Occurrences(s, sub) = {} THEN -1 ELSE Max(Occurrences(s, sub))
\* s[lo:hi] with Python's rule for a negative hi (lo is never negative here)
Slice(s, lo, hi) ==
    LET h == IF hi < 0 THEN Len(s) + hi ELSE IF hi > Len(s) THEN Len(s) ELSE hi
    IN  IF h <= lo THEN <<>> ELSE SubSeq(s, lo + 1, h)
\* "sub in s"
SubSeqOf(sub, s) == Occurrences(s, sub) # {}
\* s.startswith(prefix)
StartsWith(s, prefix) == Len(prefix) <= Len(s) /\ SubSeq(s, 1, Len(prefix)) = prefix
\* s.replace(old, ""), old not empty
RECURSIVE Remove(_, _)
Remove(s, old) ==
    IF Len(s) < Len(old) THEN s
    ELSE IF SubSeq(s, 1, Len(old)) = old THEN Remove(SubSeq(s, Len(old) + 1, Len(s)), old)
    ELSE <<Head(s)>> \o Remove(Tail(s), old)

\* the value int(s, 16) gives a character: that of a hexadecimal digit or of
\* a decimal digit of another script, -1 for another character. int() reads
\* every decimal digit of Unicode; decimal holds the scripts whose digits a
\* string of a module can hold: Extended Arabic-Indic, NKo, Bengali, Gujarati,
\* Tamil, Kannada, Sinhala Lith, Lao, Myanmar Shan, Khmer, New Tai Lue, Tai
\* Tham Hora, Tai Tham Tham, Sundanese, Saurashtra, Javanese, Myanmar Tai
\* Laing and Meetei Mayek
HexVal(c) ==
    LET upper == <<"A", "B", "C", "D", "E", "F">>
        decimal == <<<<"۰", "۱", "۲", "۳", "۴", "۵", "۶", "۷", "۸", "۹">>,
                    <<"߀", "߁", "߂", "߃", "߄", "߅", "߆", "߇", "߈", "߉">>,
                    <<"০", "১", "২", "৩", "৪", "৫", "৬", "৭", "৮", "৯">>,
                    <<"૦", "૧", "૨", "૩", "૪", "૫", "૬", "૭", "૮", "૯">>,
                    <<"௦", "௧", "௨", "௩", "௪", "௫", "௬", "௭", "௮", "௯">>,
                    <<"೦", "೧", "೨", "೩", "೪", "೫", "೬", "೭", "೮", "೯">>,
                    <<"෦", "෧", "෨", "෩", "෪", "෫", "෬", "෭", "෮", "෯">>,
                    <<"໐", "໑", "໒", "໓", "໔", "໕", "໖", "໗", "໘", "໙">>,
                    <<"႐", "႑", "႒", "႓", "႔", "႕", "႖", "႗", "႘", "႙">>,
                    <<"០", "១", "២", "៣", "៤", "៥", "៦", "៧", "៨", "៩">>,
                    <<"᧐", "᧑", "᧒", "᧓", "᧔", "᧕", "᧖", "᧗", "᧘", "᧙">>,
                    <<"᪀", "᪁", "᪂", "᪃", "᪄", "᪅", "᪆", "᪇", "᪈", "᪉">>,
                    <<"᪐", "᪑", "᪒", "᪓", "᪔", "᪕", "᪖", "᪗", "᪘", "᪙">>,
                    <<"᮰", "᮱", "᮲", "᮳", "᮴", "᮵", "᮶", "᮷", "᮸", "᮹">>,
                    <<"꣐", "꣑", "꣒", "꣓", "꣔", "꣕", "꣖", "꣗", "꣘", "꣙">>,
                    <<"꧐", "꧑", "꧒", "꧓", "꧔", "꧕", "꧖", "꧗", "꧘", "꧙">>,
                    <<"꧰", "꧱", "꧲", "꧳", "꧴", "꧵", "꧶", "꧷", "꧸", "꧹">>,
                    <<"꯰", "꯱", "꯲", "꯳", "꯴", "꯵", "꯶", "꯷", "꯸", "꯹">>>>
    IN  IF \E i \in 1..16 : HexDigits[i] = c
          THEN (CHOOSE i \in 1..16 : HexDigits[i] = c) - 1
        ELSE IF \E i \in 1..6 : upper[i] = c THEN (CHOOSE i \in 1..6 : upper[i] = c) + 9
        ELSE IF \E r \in 1..Len(decimal) : \E i \in 1..10 : decimal[r][i] = c
          THEN (CHOOSE i \in 1..10 : \E r \in 1..Len(decimal) : decimal[r][i] = c) - 1
        ELSE -1
RECURSIVE HexNumber(_, _)
HexNumber(digits, acc) ==
    IF digits = <<>> THEN acc ELSE HexNumber(Tail(digits), 16 * acc + HexVal(Head(digits)))
\* the text int() reads: s without the white space around it. int() strips
\* every white space character of Unicode; space holds those a string of a
\* module can hold: blank, tab, line feed, vertical tab, form feed, carriage
\* return, next line, no-break space and Ogham space mark
RECURSIVE Strip(_)
Strip(s) ==
    LET space == {" ", "\t", "\n", "", "\f", "\r", "", " ", " "}
    IN  IF s # <<>> /\ s[1] \in space THEN Strip(Tail(s))
        ELSE IF s # <<>> /\ s[Len(s)] \in space THEN Strip(SubSeq(s, 1, Len(s) - 1))
        ELSE s
\* int(s, 16): an optional sign, an optional prefix 0x whose zero may be
\* that of any script, then digits that single underscores may separate; ok
\* is FALSE where int raises ValueError
Unsigned(s) == IF s # <<>> /\ s[1] \in {"+", "-"} THEN Tail(s) ELSE s
Unprefixed(u) ==
    IF Len(u) >= 2 /\ HexVal(u[1]) = 0 /\ u[2] \in {"x", "X"}
      THEN IF Len(u) >= 3 /\ u[3] = "_" THEN SubSeq(u, 4, Len(u)) ELSE SubSeq(u, 3, Len(u))
      ELSE u
WellFormed(b) ==
    /\ b # <<>>
    /\ \A i \in 1..Len(b) : b[i] = "_" \/ HexVal(b[i]) >= 0
    /\ b[1] # "_" /\ b[Len(b)] # "_"
    /\ \A i \in 1..(Len(b) - 1) : ~(b[i] = "_" /\ b[i + 1] = "_")
IntValue(s, b) ==
    IF ~WellFormed(b) THEN [ok |-> FALSE, value |-> 0]
    ELSE IF s[1] = "-"
      THEN [ok |-> TRUE, value |-> 0 - HexNumber(SelectSeq(b, LAMBDA c : c # "_"), 0)]
    ELSE [ok |-> TRUE, value |-> HexNumber(SelectSeq(b, LAMBDA c : c # "_"), 0)]
IntBase16(text) == IntValue(Strip(text), Unprefixed(Unsigned(Strip(text))))

\* Metrics_function.get_instr_operands: of the operands 0 to 5 of the
\* instruction those idc.print_operand gives a text for, as (text, type); an
\* operand the disassembly does not show has the text ""
get_instr_operands(d, head) ==
    SelectSeq(SubSeq(d.ins[head].ops, 1,
                     IF Len(d.ins[head].ops) > 6 THEN 6 ELSE Len(d.ins[head].ops)),
              LAMBDA o : o.text # <<>>)

\* idc.get_operand_type(head, 0) / idc.get_operand_value(head, idx): idx
\* numbers the operands of the instruction, shown or not
get_operand_type0(d, head) ==
    IF Len(d.ins[head].ops) = 0 THEN o_void ELSE d.ins[head].ops[1].type
get_operand_value(d, head, idx) ==
    IF idx < Len(d.ins[head].ops) THEN d.ins[head].ops[idx + 1].value ELSE -1

\* the number of idautils.DataRefsTo(idc.get_operand_value(head, idx))
DataRefsTo(d, head, idx) ==
    IF idx < Len(d.ins[head].ops) THEN d.ins[head].ops[idx + 1].drefs ELSE 0

\* Metrics_function.is_var_global: more than one data reference to the datum
is_var_global(operand, refs) == operand # -1 /\ refs > 1

\* Metrics_function.get_local_var_name; <<>> stands for both "" and None,
\* which the caller treats alike (if name:)
get_local_var_name(operand) ==
    LET o == Remove(operand, <<" ">>)
    IN  IF Count(o, "+") = 1
          THEN Slice(o, Find(o, <<"+">>) + 1, Find(o, <<"]">>))
        ELSE IF Count(o, "+") = 2
          THEN Slice(o, RFind(o, <<"+">>) + 1, Find(o, <<"]">>))
        ELSE <<>>

(***************************************************************************)
(* Metrics_function.GetInstructionType                                     *)
(***************************************************************************)
GetInstructionType(d, fstart, fend, a) ==
    LET refs == {r \in CodeRefsFrom(d, a) : r >= fstart /\ r <= fend}
    IN  IF d.ins[a].call THEN "CALL"
        ELSE IF refs # {}
          THEN IF is_flow(d, next_head(d, a, fend))
                 THEN "CONDITIONAL_BRANCH" ELSE "UNCONDITIONAL_BRACH"
        ELSE IF d.ins[a].chg THEN "ASSIGNMENT"
        ELSE IF d.ins[a].use THEN "COMPARE"
        ELSE "OTHERS"

(***************************************************************************)
(* The control-flow builder: the loop of Metrics_function.start_analysis    *)
(* over the chunks and their heads.  A routine's analysis state is a record *)
(* of the fields of Metrics_function and the locals of start_analysis;      *)
(* raised names the exception that ended it ("" while none has).            *)
(***************************************************************************)
NewAnalysis(function_start, gvd) ==
    [ loc_count |-> 0, condition_count |-> 0, calls_count |-> 0,
      assign_count |-> 0, calls_dict |-> EmptyDict, mnemonics |-> EmptyDict,
      operands |-> EmptyDict, switchea |-> {}, cases_in_switches |-> 0,
      vars_local |-> EmptyDict, global_vars_used |-> EmptyDict,
      global_vars_access |-> 0, gvd |-> gvd,
      edges |-> {}, boundaries |-> {function_start}, raised |-> "" ]

\* lines 259-282: one operand of a non-branch, non-call instruction; idx is
\* its place in the list get_instr_operands returns, and line 264 reads the
\* value of operand idx of the instruction
OperandStep(st, d, head, idx, op) ==
    LET n == Get(st.operands, op.text, 0) + 1
        s1 == [st EXCEPT !.operands = Put(st.operands, op.text, n)]
        name == get_local_var_name(op.text)
    IN  IF op.type = o_mem
          THEN IF /\ is_var_global(get_operand_value(d, head, idx), DataRefsTo(d, head, idx))
                  /\ ~SubSeqOf(<<"_", "_">>, op.text)
                 THEN [s1 EXCEPT
                         !.gvd = Put(s1.gvd, op.text, n + 1),
                         !.global_vars_used =
                            Put(s1.global_vars_used, op.text,
                                Append(Get(s1.global_vars_used, op.text, <<>>), Hex(head))),
                         !.global_vars_access = s1.global_vars_access + 1]
               ELSE IF ~SubSeqOf(<<"_", "_">>, op.text)
                 THEN [s1 EXCEPT !.vars_local =
                         Put(s1.vars_local, op.text,
                             Append(Get(s1.vars_local, op.text, <<>>), Hex(head)))]
               ELSE s1
        ELSE IF op.type = o_phrase \/ op.type = o_displ
          THEN IF name # <<>>
                 THEN [s1 EXCEPT !.vars_local =
                         Put(s1.vars_local, name,
                             Append(Get(s1.vars_local, name, <<>>), Hex(head)))]
                 ELSE s1
        ELSE s1

RECURSIVE OperandFold(_, _, _, _, _)
OperandFold(st, d, head, idx, ops) ==
    IF idx >= Len(ops) THEN st
    ELSE OperandFold(OperandStep(st, d, head, idx, ops[idx + 1]), d, head, idx + 1, ops)

\* lines 233-246: the call-site key, "" for an operand type the script rejects
CallKey(d, head) ==
    LET t == get_operand_type0(d, head)
        v == get_operand_value(d, head, 0)
    IN  IF t = o_reg THEN <<"reg", v>>
        ELSE IF t = o_phrase THEN <<"phrase", v>>
        ELSE IF t = o_displ THEN <<"displ", v>>
        ELSE IF t \in {o_mem, o_imm, o_far, o_near} THEN <<"mem", v>>
        ELSE <<>>

\* the references of a head without the filter of lines 220-224
RefsUnfiltered(d, chunks, head) == CodeRefsFrom(d, head)

\* lines 215-225: the references kept, those inside a chunk of the routine
RefsFiltered(d, chunks, head) ==
    {r \in CodeRefsFrom(d, head) :
        \E i \in 1..Len(chunks) : r >= chunks[i][1] /\ r < chunks[i][2]}

\* lines 284-312: the edges one instruction adds, from its kept references
\* extended by the next head when the flow continues to it
RefsWithFlow(d, chunk, head, refs) ==
    IF refs = {} THEN {}
    ELSE IF is_flow(d, next_head(d, head, chunk[2]))
      THEN refs \cup {next_head(d, head, chunk[2])}
    ELSE refs

\* lines 300-311 with an edge only from the instruction before a target the
\* flow reaches, and the edge from the head for the other targets
EdgesOfEither(d, chunk, head, refs) ==
    {<<Hex(head), Hex(r)>> : r \in {x \in refs : ~is_flow(d, x)}}
    \cup {<<Hex(prev_head(d, r, chunk[1])), Hex(r)>> :
            r \in {x \in refs : is_flow(d, x) /\ prev_head(d, x, chunk[1]) # BADADDR}}

EdgesOf(d, chunk, head, refs) ==
    {<<Hex(head), Hex(r)>> : r \in refs}
    \cup {<<Hex(prev_head(d, r, chunk[1])), Hex(r)>> :
            r \in {x \in refs : is_flow(d, x) /\ prev_head(d, x, chunk[1]) # BADADDR}}

\* lines 227-246: the counters of the instruction types and the callees
CountStep(d, head, s0, ty, key) ==
    [s0 EXCEPT
       !.condition_count = IF ty = "CONDITIONAL_BRANCH" THEN @ + 1 ELSE @,
       !.calls_count = IF ty = "CALL" THEN @ + 1 ELSE @,
       !.assign_count = IF ty = "ASSIGNMENT" THEN @ + 1 ELSE @,
       !.calls_dict = IF ty = "CALL" THEN Put(@, key, Get(@, key, 0) + 1) ELSE @]

\* lines 248-256: the mnemonic and the switch bookkeeping
SwitchStep(s1, mnem, sw) ==
    [s1 EXCEPT
       !.mnemonics = Put(@, mnem, Get(@, mnem, 0) + 1),
       !.switchea = IF sw # <<>> THEN @ \cup {sw[1]} ELSE @,
       !.cases_in_switches =
           IF sw # <<>> /\ sw[1] \notin s1.switchea THEN @ + sw[2] ELSE @]

\* lines 284-312: the boundaries and edges the head contributes
EdgeStep(d, chunk, head, s3, refs) ==
    [s3 EXCEPT !.boundaries = @ \cup refs,
               !.edges = @ \cup EdgesOf(d, chunk, head, refs)]

\* lines 210-312 for a code head: s0 has counted the line, ty is its type,
\* key the name of the routine it calls
CodeStep(d, chunks, chunk, head, s0, ty, key) ==
    IF BADADDR \in CodeRefsFrom(d, head)
      THEN [s0 EXCEPT !.raised = "Invalid reference for head"]
    ELSE IF ty = "CALL" /\ key = <<>>
      THEN [s0 EXCEPT !.calls_count = @ + 1, !.raised = "Cthulhu has awakened"]
    ELSE EdgeStep(d, chunk, head,
                  IF ty # "CONDITIONAL_BRANCH" /\ ty # "CALL"
                    THEN OperandFold(SwitchStep(CountStep(d, head, s0, ty, key),
                                                d.ins[head].mnem, d.ins[head].sw),
                                     d, head, 0, get_instr_operands(d, head))
                    ELSE SwitchStep(CountStep(d, head, s0, ty, key),
                                    d.ins[head].mnem, d.ins[head].sw),
                  RefsWithFlow(d, chunk, head, RefsFiltered(d, chunks, head)))

\* lines 207-312: one head of one chunk
HeadStep(d, f, chunks, chunk, head, st) ==
    IF ~is_code(d, head) THEN st
    ELSE CodeStep(d, chunks, chunk, head, [st EXCEPT !.loc_count = st.loc_count + 1],
                  GetInstructionType(d, f.start, f.end, head), CallKey(d, head))

\* the (chunk, head) pairs in the order the two loops visit them
RECURSIVE WalkOrder(_, _, _)
WalkOrder(d, chunks, i) ==
    IF i > Len(chunks) THEN <<>>
    ELSE [k \in 1..Len(SortedSeq(Heads(d, chunks[i][1], chunks[i][2]))) |->
            <<i, SortedSeq(Heads(d, chunks[i][1], chunks[i][2]))[k]>>]
         \o WalkOrder(d, chunks, i + 1)

RECURSIVE BuildFold(_, _, _, _, _)
BuildFold(d, f, chunks, walk, st) ==
    IF walk = <<>> \/ st.raised # "" THEN st
    ELSE BuildFold(d, f, chunks, Tail(walk),
                   HeadStep(d, f, chunks, chunks[Head(walk)[1]], Head(walk)[2], st))

\* lines 191-312
ControlFlowBuilder(d, f, gvd) ==
    BuildFold(d, f, f.chunks, WalkOrder(d, f.chunks, 1), NewAnalysis(f.start, gvd))

(***************************************************************************)
(* Metrics_function.get_bbls: the basic-block partitioner.  A block is the  *)
(* sequence of the hex strings of its heads.                                *)
(***************************************************************************)
\* "head in edges": head is an int and edges holds pairs of hex strings, so
\* the test is false for every head
HeadInEdges(head, edges) == FALSE

\* lines 699-710: one head; acc is [bbls, bbl]
BblStep(d, f, boundaries, edges, head, acc) ==
    IF head \in boundaries \/ HeadInEdges(head, edges)
      THEN [bbls |-> IF Len(acc.bbl) > 0 THEN Append(acc.bbls, acc.bbl) ELSE acc.bbls,
            bbl |-> <<Hex(head)>>]
    ELSE IF GetInstructionType(d, f.start, f.end, head) = "CONDITIONAL_BRANCH"
      THEN [bbls |-> Append(acc.bbls, Append(acc.bbl, Hex(head))), bbl |-> <<>>]
    ELSE [bbls |-> acc.bbls, bbl |-> Append(acc.bbl, Hex(head))]

RECURSIVE BblFold(_, _, _, _, _, _)
BblFold(d, f, boundaries, edges, walk, acc) ==
    IF walk = <<>> THEN acc
    ELSE BblFold(d, f, boundaries, edges, Tail(walk),
                 BblStep(d, f, boundaries, edges, Head(walk)[2], acc))

\* get_bbls without lines 712-713: the block left open by the last head is
\* not appended
get_bbls_unflushed(d, f, chunks, boundaries, edges) ==
    BblFold(d, f, boundaries, edges, WalkOrder(d, chunks, 1),
            [bbls |-> <<>>, bbl |-> <<>>]).bbls

get_bbls(d, f, chunks, boundaries, edges) ==
    LET acc == BblFold(d, f, boundaries, edges, WalkOrder(d, chunks, 1),
                       [bbls |-> <<>>, bbl |-> <<>>])
    IN  IF Len(acc.bbl) > 0 THEN Append(acc.bbls, acc.bbl) ELSE acc.bbls

(***************************************************************************)
(* Metrics_function.make_graph.  A node graph maps the hex string of a      *)
(* block entry to the list of its successors or to None.  The successors    *)
(* are listed in the order a set of string pairs is iterated, which differs *)
(* from run to run: every order is an outcome.                              *)
(***************************************************************************)
NoneVal == <<"None">>

\* the dicts that map every key k of c to one element of c[k]
RECURSIVE Choices(_)
Choices(c) ==
    IF DOMAIN c = {} THEN {EmptyDict}
    ELSE LET k == CHOOSE x \in DOMAIN c : TRUE
             rest == Choices([x \in DOMAIN c \ {k} |-> c[x]])
         IN  {(k :> v) @@ f : v \in c[k], f \in rest}

\* the lists that hold every element of S once
Orderings(S) ==
    {q \in [1..Cardinality(S) -> S] : \A i, j \in 1..Cardinality(S) : q[i] = q[j] => i = j}

\* the targets of the edges that leave edge_from
EdgesTo(edges, edge_from) == {e[2] : e \in {x \in edges : x[1] = edge_from}}

\* lines 651-654: the values of edges_dict, edge_from -> the targets of its
\* edges, appended in the order the set edges is iterated
EdgesDictOutcomes(edges) ==
    Choices([s \in {e[1] : e \in edges} |-> Orderings(EdgesTo(edges, s))])

\* bbls_dict of make_graph: the last instruction of a block -> the block
BblsByLast(bbls) ==
    [l \in {bbls[i][Len(bbls[i])] : i \in 1..Len(bbls)} |->
        bbls[CHOOSE i \in 1..Len(bbls) : bbls[i][Len(bbls[i])] = l]]

\* lines 664-671: the key an edge source is stored under, "" when the source
\* is no boundary and ends no block (the edge is dropped with a warning)
GraphKey(edge_from, bbls, boundaries) ==
    IF edge_from \in {Hex(b) : b \in boundaries} THEN edge_from
    ELSE IF edge_from \in DOMAIN BblsByLast(bbls) THEN BblsByLast(bbls)[edge_from][1]
    ELSE ""

\* lines 652-653, 677-678
MakeGraphRaises(edges, bbls, boundaries) ==
    \/ \E e \in edges : e[1] = Hex(BADADDR)
    \/ /\ edges # {}
       /\ \A s \in {e[1] : e \in edges} : GraphKey(s, bbls, boundaries) = ""

\* lines 659-678 on one value ed of edges_dict
GraphFromNoTerminals(ed, edges, bbls, boundaries) ==
    LET keyed == {GraphKey(s, bbls, boundaries) : s \in DOMAIN ed} \ {""}
        cand(k) == {ed[s] : s \in {x \in DOMAIN ed : GraphKey(x, bbls, boundaries) = k}}
        root == IF keyed = {} /\ edges = {} /\ Cardinality(boundaries) = 1
                  THEN {Hex(b) : b \in boundaries} ELSE {}
    IN  {[k \in keyed \cup root |-> IF k \in keyed THEN pick[k] ELSE NoneVal] :
         pick \in Choices([k \in keyed |-> cand(k)])}

\* make_graph without lines 679-683: the blocks no edge leaves are not added
MakeGraphOutcomesNoTerminals(edges, bbls, boundaries) ==
    UNION {GraphFromNoTerminals(ed, edges, bbls, boundaries) : ed \in EdgesDictOutcomes(edges)}

\* lines 659-684 on one value ed of edges_dict.  Two edge sources stored
\* under one key overwrite one another in the iteration order of a dict
\* filled from a set of string pairs, which differs from run to run: either
\* may be the one kept.
GraphFrom(ed, edges, bbls, boundaries) ==
    LET keyed == {GraphKey(s, bbls, boundaries) : s \in DOMAIN ed} \ {""}
        cand(k) == {ed[s] : s \in {x \in DOMAIN ed : GraphKey(x, bbls, boundaries) = k}}
        root == IF keyed = {} /\ edges = {} /\ Cardinality(boundaries) = 1
                  THEN {Hex(b) : b \in boundaries} ELSE {}
        terminal == {bbls[i][1] : i \in 1..Len(bbls)} \ keyed
    IN  {[k \in keyed \cup root \cup terminal |->
            IF k \in keyed THEN pick[k] ELSE NoneVal] :
         pick \in Choices([k \in keyed |-> cand(k)])}

\* The graphs make_graph can return
MakeGraphOutcomes(edges, bbls, boundaries) ==
    UNION {GraphFrom(ed, edges, bbls, boundaries) : ed \in EdgesDictOutcomes(edges)}

(***************************************************************************)
(* The recursive graph metrics.                                            *)
(***************************************************************************)
\* Metrics_function.get_subgraph_nodes_count; the result carries the list
\* nodes_passed, which the calls share and append to
RECURSIVE get_subgraph_nodes_count(_, _, _)
RECURSIVE SubgraphChildren(_, _, _)
get_subgraph_nodes_count(node, node_graph, nodes_passed) ==
    IF node \in Range(nodes_passed) THEN [n |-> 1, passed |-> nodes_passed]
    ELSE IF Get(node_graph, node, NoneVal) = NoneVal
      THEN [n |-> 0, passed |-> Append(nodes_passed, node)]
    ELSE SubgraphChildren(node_graph[node], node_graph,
                          [n |-> 0, passed |-> Append(nodes_passed, node)])

\* the loop of lines 533-538 without the test of lines 534-535
SubgraphChildrenRevisiting(childs, node_graph, acc) ==
    IF childs = <<>> THEN acc
    ELSE LET r == get_subgraph_nodes_count(Head(childs), node_graph, acc.passed)
         IN  SubgraphChildren(Tail(childs), node_graph,
                              [n |-> acc.n + r.n + 1, passed |-> r.passed])

SubgraphChildren(childs, node_graph, acc) ==
    IF childs = <<>> THEN acc
    ELSE IF Head(childs) \in Range(acc.passed)
      THEN SubgraphChildren(Tail(childs), node_graph, acc)
    ELSE LET r == get_subgraph_nodes_count(Head(childs), node_graph, acc.passed)
         IN  SubgraphChildren(Tail(childs), node_graph,
                              [n |-> acc.n + r.n + 1, passed |-> r.passed])

\* Metrics_function.get_boundary_value_metric
BoundaryNode(node, node_graph, pivovarsky) ==
    IF node_graph[node] = NoneVal THEN 0
    ELSE IF pivovarsky
      THEN IF Len(node_graph[node]) = 2
             THEN get_subgraph_nodes_count(node, node_graph, <<>>).n ELSE 0
    ELSE IF Len(node_graph[node]) >= 2
      THEN get_subgraph_nodes_count(node, node_graph, <<>>).n
    ELSE 1

\* get_boundary_value_metric without the decrement of lines 565-566
get_boundary_value_metric_undecremented(node_graph, pivovarsky) ==
    LET nodes == SetToSeq(DOMAIN node_graph)
    IN  SumSeq([i \in 1..Len(nodes) |-> BoundaryNode(nodes[i], node_graph, pivovarsky)])

\* Metrics_function.get_boundary_value_metric
get_boundary_value_metric(node_graph, pivovarsky) ==
    LET nodes == SetToSeq(DOMAIN node_graph)
    IN  SumSeq([i \in 1..Len(nodes) |-> BoundaryNode(nodes[i], node_graph, pivovarsky)])
        - (IF pivovarsky THEN 0 ELSE 1)

\* bbls_dict of get_harrison_metric: the first instruction of a block -> block
BblsByFirst(bbls) ==
    [h \in {bbls[i][1] : i \in 1..Len(bbls)} |->
        bbls[CHOOSE i \in 1..Len(bbls) : bbls[i][1] = h]]

\* Metrics_function.get_node_complexity
RECURSIVE get_node_complexity(_, _, _, _)
RECURSIVE ComplexityChildren(_, _, _, _)
get_node_complexity(node, node_graph, bbls_dict, nodes_passed) ==
    IF node \in Range(nodes_passed) THEN [n |-> 0, passed |-> nodes_passed]
    ELSE IF Get(node_graph, node, NoneVal) = NoneVal
      THEN [n |-> 0, passed |-> Append(nodes_passed, node)]
    ELSE ComplexityChildren(node_graph[node], node_graph, bbls_dict,
                            [n |-> 0, passed |-> Append(nodes_passed, node)])

\* the loop of lines 588-599 with a copy of nodes_passed handed to each call:
\* what a call appends is not seen by the calls after it
ComplexityChildrenUnshared(childs, node_graph, bbls_dict, acc) ==
    IF childs = <<>> THEN acc
    ELSE IF Head(childs) \in Range(acc.passed)
      THEN ComplexityChildren(Tail(childs), node_graph, bbls_dict, acc)
    ELSE IF Head(childs) \notin DOMAIN bbls_dict
      THEN ComplexityChildren(Tail(childs), node_graph, bbls_dict, acc)
    ELSE LET r == get_node_complexity(Head(childs), node_graph, bbls_dict, acc.passed)
         IN  ComplexityChildren(Tail(childs), node_graph, bbls_dict,
                                [n |-> acc.n + Len(bbls_dict[Head(childs)]) + r.n,
                                 passed |-> Append(acc.passed, Head(childs))])

ComplexityChildren(childs, node_graph, bbls_dict, acc) ==
    IF childs = <<>> THEN acc
    ELSE IF Head(childs) \in Range(acc.passed)
      THEN ComplexityChildren(Tail(childs), node_graph, bbls_dict, acc)
    ELSE IF Head(childs) \notin DOMAIN bbls_dict
      THEN ComplexityChildren(Tail(childs), node_graph, bbls_dict, acc)
    ELSE LET r == get_node_complexity(Head(childs), node_graph, bbls_dict, acc.passed)
         IN  ComplexityChildren(Tail(childs), node_graph, bbls_dict,
                                [n |-> acc.n + Len(bbls_dict[Head(childs)]) + r.n,
                                 passed |-> r.passed])

\* get_harrison_metric with the test of line 614 taken as len(childs) < 2
HarrisonNodeAtLeastTwo(node, node_graph, bbls_dict) ==
    LET own == IF node \in DOMAIN bbls_dict THEN Len(bbls_dict[node]) ELSE 0
    IN  IF node_graph[node] = NoneVal \/ Len(node_graph[node]) < 2 THEN own
        ELSE get_node_complexity(node, node_graph, bbls_dict, <<>>).n + own

\* Metrics_function.get_harrison_metric
HarrisonNode(node, node_graph, bbls_dict) ==
    LET own == IF node \in DOMAIN bbls_dict THEN Len(bbls_dict[node]) ELSE 0
    IN  IF node_graph[node] = NoneVal \/ Len(node_graph[node]) # 2 THEN own
        ELSE get_node_complexity(node, node_graph, bbls_dict, <<>>).n + own

get_harrison_metric(node_graph, bbls) ==
    LET nodes == SetToSeq(DOMAIN node_graph)
    IN  SumSeq([i \in 1..Len(nodes) |->
                  HarrisonNode(nodes[i], node_graph, BblsByFirst(bbls))])

(***************************************************************************)
(* Numbers.  A value the script computes with true division is a reduced    *)
(* fraction <<num, den>>; a square root is kept as its radicand and a       *)
(* logarithm as its arguments, so that no value is rounded.                 *)
(***************************************************************************)
ARGUMENT_SIZE == 4

RECURSIVE GCD(_, _)
GCD(a, b) == IF b = 0 THEN a ELSE GCD(b, a % b)
Abs(x) == IF x < 0 THEN -x ELSE x
\* the pair p in lowest terms
Reduced(p) == <<p[1] \div GCD(Abs(p[1]), p[2]), p[2] \div GCD(Abs(p[1]), p[2])>>
\* n / d; n and d are evaluated once
Rat(n, d) == CHOOSE r \in {Reduced(p) : p \in {<<n, d>>}} : TRUE
RatInt(n) == <<n, 1>>
RatAdd(a, b) == Rat(a[1] * b[2] + b[1] * a[2], a[2] * b[2])
RatMul(a, b) == Rat(a[1] * b[1], a[2] * b[2])
RatZero == <<0, 1>>

\* N * math.log(n, 2), for n >= 1: <<N, n>>, the zero being <<0, 1>>
LogTerm(N, n) == IF N = 0 \/ n = 1 THEN <<0, 1>> ELSE <<N, n>>
\* n1 * log2(n1) + n2 * log2(n2), for n1, n2 >= 1: the zero is <<1, 1>>
NiTerm(n1, n2) == <<n1, n2>>
\* D * V, and (D * V) ** (2.0 / 3.0) / 3000 which is zero exactly when D * V is
ProdTerm(D, V) == IF D = RatZero \/ V = <<0, 1>> THEN [D |-> RatZero, V |-> <<0, 1>>]
                  ELSE [D |-> D, V |-> V]
ZeroProd == [D |-> RatZero, V |-> <<0, 1>>]
\* a sum of square roots: the bag of the non-zero radicands
SqrtBag(k) == IF k = 0 THEN EmptyDict ELSE [x \in {k} |-> 1]
BagAdd(a, b) == [x \in DOMAIN a \cup DOMAIN b |-> Get(a, x, 0) + Get(b, x, 0)]

(***************************************************************************)
(* Halstead_metric                                                         *)
(***************************************************************************)
\* Halstead_metric.__init__; raised records that calculate ended with an
\* exception
NewHalstead == [n1 |-> 0, n2 |-> 0, N1 |-> 0, N2 |-> 0, V |-> <<0, 1>>,
                Ni |-> <<1, 1>>, D |-> RatZero, E |-> ZeroProd, B |-> ZeroProd,
                raised |-> FALSE]

\* lines 133-140, once V is set
Difficulty(h, V) ==
    [h EXCEPT !.V = V,
              !.D = IF h.n2 # 0 THEN RatMul(Rat(h.n1, 2), Rat(h.N2, h.n2)) ELSE @,
              !.E = ProdTerm(IF h.n2 # 0 THEN RatMul(Rat(h.n1, 2), Rat(h.N2, h.n2))
                             ELSE h.D, V),
              !.B = ProdTerm(IF h.n2 # 0 THEN RatMul(Rat(h.n1, 2), Rat(h.N2, h.n2))
                             ELSE h.D, V)]

\* Halstead_metric.calculate.  Ni keeps its value when a logarithm of line
\* 126 fails; math.log(n, 2) of line 132 is outside the try block and raises
\* for n = n1 + n2 <= 0, which leaves the other fields as they were.
calculate(h) ==
    IF h.n1 + h.n2 <= 0 THEN [h EXCEPT !.raised = TRUE]
    ELSE Difficulty([h EXCEPT !.Ni = IF h.n1 > 0 /\ h.n2 > 0
                                       THEN NiTerm(h.n1, h.n2) ELSE @],
                    LogTerm(h.N1 + h.N2, h.n1 + h.n2))

(***************************************************************************)
(* The variable metrics.  A variable name, like an operand, is a text; a    *)
(* usage list is a sequence of hex strings.                                 *)
(***************************************************************************)
\* idc.GetDisasm(head): the mnemonic, a blank, and the operands separated
\* by a comma and a blank
RECURSIVE JoinOps(_)
JoinOps(ops) ==
    IF ops = <<>> THEN <<>>
    ELSE IF Len(ops) = 1 THEN ops[1].text
    ELSE ops[1].text \o <<",", " ">> \o JoinOps(Tail(ops))
GetDisasm(d, head) ==
    IF d.ins[head].ops = <<>> THEN d.ins[head].mnem
    ELSE d.ins[head].mnem \o <<" ">> \o JoinOps(d.ins[head].ops)

\* int(op.replace("h", ""), 16) of the text of an operand
ImmValue(op) == IntBase16(Remove(op.text, <<"h">>))

\* lines 768-777: the operands of the instruction at head that make
\* local_var an argument
ArgOperands(d, local_var, head) ==
    {idx \in 1..Len(get_instr_operands(d, UnHex(head))) :
        LET op == get_instr_operands(d, UnHex(head))[idx].text
        IN  \/ /\ Count(op, "+") = 1
               /\ get_operand_value(d, UnHex(head), idx - 1) < 15 * ARGUMENT_SIZE
               /\ SubSeqOf(Spell["ebp"], op)
            \/ /\ Count(op, "+") = 2
               /\ SubSeqOf(Spell["arg"], local_var)}

\* lines 761-777: args_dict[local_var], a usage once for each of the operands
\* of its instruction that make local_var an argument
RECURSIVE ArgUsages(_, _, _)
ArgUsages(d, local_var, usage_list) ==
    IF usage_list = <<>> THEN <<>>
    ELSE [k \in 1..Cardinality(ArgOperands(d, local_var, Head(usage_list))) |->
            Head(usage_list)]
         \o ArgUsages(d, local_var, Tail(usage_list))

\* the keys of args_dict
ArgsDictKeys(d, local_vars) ==
    {v \in DOMAIN local_vars : ArgUsages(d, v, local_vars[v]) # <<>>}

\* lines 790-794, 804-808: the count an operand gives, a float, or the
\* ValueError of int
CountOfValue(v) ==
    IF v.ok
      THEN [count |-> Rat(v.value, ARGUMENT_SIZE), raised |-> ""]
      ELSE [count |-> RatZero, raised |-> "invalid literal for int() with base 16"]
CountOfOperand(op) == CountOfValue(ImmValue(op))

\* lines 783-809: the count taken from "ret N" or from "add esp, N" after a
\* call of the routine
FallbackArgsCount(d, fea) ==
    LET f_end == prev_head(d, find_func_end(d, fea), 0)
        callers == {c \in 0..(d.top - 1) : fea \in CodeRefsFrom(d, c)}
        after(c) == next_head(d, c, BADADDR)
        cdecl == {c \in callers :
                    /\ after(c) # 0
                    /\ after(c) # BADADDR
                    /\ SubSeqOf(Spell["add"], GetDisasm(d, after(c)))
                    /\ SubSeqOf(Spell["esp"] \o <<",">>, GetDisasm(d, after(c)))}
    IN  IF /\ f_end # BADADDR
           /\ SubSeqOf(Spell["ret"], d.ins[f_end].mnem)
           /\ Len(get_instr_operands(d, f_end)) = 1
          THEN CountOfOperand(get_instr_operands(d, f_end)[1])
        ELSE IF cdecl # {}
          THEN IF Len(get_instr_operands(d, after(Min(cdecl)))) < 2
                 THEN [count |-> RatZero, raised |-> "list index out of range"]
                 ELSE CountOfOperand(get_instr_operands(d, after(Min(cdecl)))[2])
        ELSE [count |-> RatZero, raised |-> ""]

\* Metrics_function.get_function_args_count: (count, args_dict), or the
\* exception it raises
ArgsResult(d, local_vars, keys, fallback) ==
    IF keys # {}
      THEN [count |-> RatInt(Cardinality(keys)),
            args_dict |-> [v \in keys |-> ArgUsages(d, v, local_vars[v])],
            raised |-> ""]
      ELSE [count |-> fallback.count, args_dict |-> EmptyDict, raised |-> fallback.raised]
get_function_args_count(d, fea, local_vars) ==
    ArgsResult(d, local_vars, ArgsDictKeys(d, local_vars), FallbackArgsCount(d, fea))

\* lines 444-453: the keys of tmp_dict, the variables used by a cmp or test
CmpVars(d, local_vars) ==
    {v \in DOMAIN local_vars :
        \E i \in 1..Len(local_vars[v]) :
            \/ StartsWith(d.ins[UnHex(local_vars[v][i])].mnem, Spell["cmp"])
            \/ StartsWith(d.ins[UnHex(local_vars[v][i])].mnem, Spell["test"])}

\* lines 442-465: the deletions from local_vars, the counts and the value;
\* an exception of get_function_args_count (line 443) comes before them
ChepinCounts(local_vars, a, tmp) ==
    LET left == [v \in (DOMAIN local_vars \ DOMAIN a.args_dict) \ tmp |-> local_vars[v]]
        c == Cardinality(tmp)
        m == Cardinality(DOMAIN left)
    IN  IF a.raised # ""
          THEN [p |-> RatZero, m |-> 0, c |-> 0, P_vars |-> {}, M_vars |-> {},
                C_vars |-> {}, chepin |-> RatZero, local_vars |-> local_vars,
                raised |-> a.raised]
          ELSE [p |-> a.count, m |-> m, c |-> c,
                P_vars |-> DOMAIN a.args_dict, M_vars |-> DOMAIN left, C_vars |-> tmp,
                chepin |-> RatAdd(a.count, RatInt(2 * m + 3 * c)),
                local_vars |-> left, raised |-> ""]

\* Metrics_function.get_chepin: the three counts, the value and the dictionary
\* local_vars as the deletions of lines 455-460 leave it
get_chepin(d, local_vars, fea) ==
    ChepinCounts(local_vars, get_function_args_count(d, fea, local_vars),
                 CmpVars(d, local_vars))

\* Metrics_function.get_oviedo_df
OviedoVar(d, local_var, usage_list) ==
    Len(usage_list)
    - Cardinality({i \in 1..Len(usage_list) :
          /\ StartsWith(d.ins[UnHex(usage_list[i])].mnem, Spell["mov"])
          /\ Len(get_instr_operands(d, UnHex(usage_list[i]))) >= 1
          /\ SubSeqOf(local_var, get_instr_operands(d, UnHex(usage_list[i]))[1].text)})

get_oviedo_df(d, local_vars) ==
    LET vs == SetToSeq(DOMAIN local_vars)
    IN  SumSeq([i \in 1..Len(vs) |-> OviedoVar(d, vs[i], local_vars[vs[i]])])

\* op.replace("ds:", "")
DropDs(op) == Remove(op, Spell["ds:"])

\* Metrics_function.is_operand_called: "op in instr_ops" compares a string
\* with (text, type) pairs and never holds; the disassembly line decides.
\* Line 744 rebinds op: each call or conditional branch of the block removes
\* "ds:" from what the one before it left.
RECURSIVE is_operand_called(_, _, _, _)
is_operand_called(d, f, op, bbl) ==
    IF bbl = <<>> THEN FALSE
    ELSE IF GetInstructionType(d, f.start, f.end, UnHex(Head(bbl)))
              \in {"CALL", "CONDITIONAL_BRANCH"}
      THEN \/ SubSeqOf(DropDs(op), GetDisasm(d, UnHex(Head(bbl))))
           \/ is_operand_called(d, f, DropDs(op), Tail(bbl))
    ELSE is_operand_called(d, f, op, Tail(bbl))

\* Metrics_function.get_span_metric
SpanOfHead(d, f, head, bbl) ==
    IF GetInstructionType(d, f.start, f.end, head) \in {"CALL", "CONDITIONAL_BRANCH"}
      THEN 0
    ELSE Cardinality({k \in 1..Len(get_instr_operands(d, head)) :
            /\ ~is_operand_called(d, f, get_instr_operands(d, head)[k].text, bbl)
            /\ get_instr_operands(d, head)[k].type >= o_mem
            /\ get_instr_operands(d, head)[k].type <= o_displ})

get_span_metric(d, f, bbls) ==
    SumSeq([i \in 1..Len(bbls) |->
              SumSeq([j \in 1..Len(bbls[i]) |->
                        SpanOfHead(d, f, UnHex(bbls[i][j]), bbls[i])])])

\* Metrics_function.get_unique_vars_read_write_count
VarsRead(d, f, vars_dict) ==
    {v \in DOMAIN vars_dict : \E i \in 1..Len(vars_dict[v]) :
        LET a == UnHex(vars_dict[v][i])
            ty == GetInstructionType(d, f.start, f.end, a)
        IN  \/ ty = "COMPARE"
            \/ /\ ty = "ASSIGNMENT"
               /\ Len(get_instr_operands(d, a)) >= 1
               /\ ~SubSeqOf(v, get_instr_operands(d, a)[1].text)}

VarsWritten(d, f, vars_dict) ==
    {v \in DOMAIN vars_dict : \E i \in 1..Len(vars_dict[v]) :
        LET a == UnHex(vars_dict[v][i])
        IN  /\ GetInstructionType(d, f.start, f.end, a) = "ASSIGNMENT"
            /\ Len(get_instr_operands(d, a)) >= 1
            /\ SubSeqOf(v, get_instr_operands(d, a)[1].text)}

\* lines 476-493: the information flows over the argument variables and the
\* globals, and the value
HenryFlows(d, f, calls_dict, vars_args, global_vars_used, CC) ==
    LET fan_out_s == Cardinality(DOMAIN calls_dict)
        fan_in_s == Cardinality({c \in 0..(d.top - 1) : f.start \in CodeRefsFrom(d, c)})
        fan_in_i == Cardinality(VarsRead(d, f, vars_args))
                    + Cardinality(VarsRead(d, f, global_vars_used))
        fan_out_i == Cardinality(VarsWritten(d, f, vars_args))
                     + Cardinality(VarsWritten(d, f, global_vars_used))
    IN  [fan_out_s |-> fan_out_s, fan_in_s |-> fan_in_s, fan_in_i |-> fan_in_i,
         fan_out_i |-> fan_out_i, vars_args |-> vars_args,
         value |-> CC + (fan_in_s + fan_in_i + fan_out_s + fan_out_i) ^ 2,
         raised |-> ""]

\* lines 474-479 when get_function_args_count raises: the structural fans
\* are set, the rest is not
HenryRaised(d, f, calls_dict, raised) ==
    [fan_out_s |-> Cardinality(DOMAIN calls_dict),
     fan_in_s |-> Cardinality({c \in 0..(d.top - 1) : f.start \in CodeRefsFrom(d, c)}),
     fan_in_i |-> 0, fan_out_i |-> 0, vars_args |-> EmptyDict, value |-> 0,
     raised |-> raised]

\* Metrics_function.get_henryncafura_metric: the fields it sets and its value
get_henryncafura_metric(d, f, calls_dict, vars_local, global_vars_used, CC) ==
    LET a == get_function_args_count(d, f.start, vars_local)
    IN  IF a.raised # "" THEN HenryRaised(d, f, calls_dict, a.raised)
        ELSE HenryFlows(d, f, calls_dict, a.args_dict, global_vars_used, CC)

(***************************************************************************)
(* Metrics_function.__init__ and Metrics_function.start_analysis           *)
(***************************************************************************)
metrics_list == {"loc", "bbls", "calls", "condit", "assign", "cc", "cc_mod",
                 "jilb", "abc", "pi", "h", "harr", "bound", "span", "global",
                 "oviedo", "chepin", "c&s", "h&c", "cocol"}

\* the fields of a Metrics_function that the reports and the totals read
NewFunction(name) ==
    [ function_name |-> name, loc_count |-> 0, bbl_count |-> 0,
      condition_count |-> 0, calls_count |-> 0, R |-> RatZero, CC |-> 0,
      CL |-> RatZero, assign_count |-> 0, ABC |-> 0, CC_modified |-> 0,
      Pivovarsky |-> 0, Halstead_basic |-> NewHalstead, Harrison |-> 0,
      boundary_values |-> 0, span_metric |-> 0, Oviedo |-> 0,
      Chepin |-> RatZero, global_vars_access |-> 0,
      global_vars_metric |-> RatZero, CardnGlass |-> RatZero,
      fan_in_i |-> 0, fan_in_s |-> 0, fan_out_i |-> 0, fan_out_s |-> 0,
      HenrynCafura |-> 0, Cocol |-> [B |-> ZeroProd, add |-> 0] ]

\* the routine a Metrics_function is built for
Routine(d, fea) ==
    [start |-> fea, end |-> find_func_end(d, fea),
     chunks |-> enumerate_function_chunks(d, fea), name |-> get_func_name(d, fea)]

\* the counters of the loop, as they stand when it ends or raises
AfterBuild(name, st) ==
    [NewFunction(name) EXCEPT
        !.loc_count = st.loc_count, !.condition_count = st.condition_count,
        !.calls_count = st.calls_count, !.assign_count = st.assign_count,
        !.global_vars_access = st.global_vars_access]

\* lines 322-342 with the complexity taken as the decision count plus one
AfterCountsDecisions(m, st, mask) ==
    [m EXCEPT
        !.CC = IF mask["cc"] = 1 \/ mask["cocol"] = 1
                 THEN st.condition_count + 1 ELSE @,
        !.R = Rat(Cardinality(st.edges), Cardinality(st.boundaries)),
        !.bbl_count = Cardinality(st.boundaries),
        !.CL = IF mask["jilb"] = 1 /\ st.loc_count # 0
                 THEN Rat(st.condition_count + st.calls_count, st.loc_count)
                 ELSE IF mask["jilb"] = 1 THEN RatZero ELSE @,
        !.ABC = IF mask["abc"] = 1
                  THEN st.assign_count ^ 2 + st.condition_count ^ 2 + st.calls_count ^ 2
                  ELSE @]

\* lines 322-342
AfterCounts(m, st, mask) ==
    [m EXCEPT
        !.CC = IF mask["cc"] = 1 \/ mask["cocol"] = 1
                 THEN Cardinality(st.edges) - Cardinality(st.boundaries) + 2 ELSE @,
        !.R = Rat(Cardinality(st.edges), Cardinality(st.boundaries)),
        !.bbl_count = Cardinality(st.boundaries),
        !.CL = IF mask["jilb"] = 1 /\ st.loc_count # 0
                 THEN Rat(st.condition_count + st.calls_count, st.loc_count)
                 ELSE IF mask["jilb"] = 1 THEN RatZero ELSE @,
        !.ABC = IF mask["abc"] = 1
                  THEN st.assign_count ^ 2 + st.condition_count ^ 2 + st.calls_count ^ 2
                  ELSE @]

\* lines 356-364
ModifiedCC(CC, st) ==
    IF st.cases_in_switches # 0
      THEN (Cardinality(st.edges) - ((st.cases_in_switches - 1) * 2))
           - (Cardinality(st.boundaries) - (st.cases_in_switches - 1)) + 2
    ELSE CC

\* lines 371-374: the counts of the routine
HalsteadCounts(h, st) ==
    [h EXCEPT !.N1 = st.loc_count,
              !.n1 = Cardinality(DOMAIN st.mnemonics),
              !.n2 = Cardinality(DOMAIN st.operands),
              !.N2 = SumSeq([i \in 1..Cardinality(DOMAIN st.operands) |->
                               st.operands[SetToSeq(DOMAIN st.operands)[i]]])]

\* lines 370-377 without the test of line 375
RoutineHalsteadUnguarded(h, st) == calculate(HalsteadCounts(h, st))

\* lines 370-377
RoutineHalstead(h, st) ==
    IF Cardinality(DOMAIN st.operands) # 0
      THEN calculate(HalsteadCounts(h, st))
      ELSE [HalsteadCounts(h, st) EXCEPT !.N2 = h.N2]

\* lines 348-364 with Harrison computed whenever a node graph exists
GraphMetricsUngated(m, st, bbls, node_graph, mask) ==
    [m EXCEPT
       !.Harrison = get_harrison_metric(node_graph, bbls),
       !.boundary_values = IF mask["bound"] = 1
                             THEN get_boundary_value_metric(node_graph, FALSE) ELSE @,
       !.CC_modified = IF mask["cc_mod"] = 1 THEN ModifiedCC(m.CC, st) ELSE @]

\* lines 348-364: Harrison, boundary values and the modified CC
GraphMetrics(m, st, bbls, node_graph, mask) ==
    [m EXCEPT
       !.Harrison = IF mask["harr"] = 1
                      THEN get_harrison_metric(node_graph, bbls) ELSE @,
       !.boundary_values = IF mask["bound"] = 1
                             THEN get_boundary_value_metric(node_graph, FALSE) ELSE @,
       !.CC_modified = IF mask["cc_mod"] = 1 THEN ModifiedCC(m.CC, st) ELSE @]

\* lines 366-377: Pivovarsky and Halstead
PiHalstead(m1, st, node_graph, mask) ==
    [m1 EXCEPT
       !.Pivovarsky = IF mask["pi"] = 1
                        THEN m1.CC_modified + get_boundary_value_metric(node_graph, TRUE)
                        ELSE @,
       !.Halstead_basic = IF mask["h"] = 1 \/ mask["cocol"] = 1
                            THEN RoutineHalstead(@, st) ELSE @]

\* lines 380-385: span and Oviedo
FlowMetrics(d, f, m2, st, bbls, mask) ==
    [m2 EXCEPT
       !.span_metric = IF mask["span"] = 1 THEN get_span_metric(d, f, bbls) ELSE @,
       !.Oviedo = IF mask["oviedo"] = 1
                    THEN Cardinality(st.edges) + get_oviedo_df(d, st.vars_local)
                    ELSE @]

\* lines 388-398: Chepin, Henry and Cafura, Card and Glass; an exception of
\* get_function_args_count ends them where it is raised
VarMetrics(m2, ch, hc, mask) ==
    LET both == mask["h&c"] = 1 \/ mask["c&s"] = 1
        fan_out == IF both THEN hc.fan_out_i + hc.fan_out_s ELSE 0
        nargs == IF both THEN Cardinality(DOMAIN hc.vars_args) ELSE 0
    IN  IF mask["chepin"] = 1 /\ ch.raised # "" THEN m2
        ELSE IF both /\ hc.raised # ""
          THEN [m2 EXCEPT
                  !.Chepin = IF mask["chepin"] = 1 THEN ch.chepin ELSE @,
                  !.fan_in_s = hc.fan_in_s,
                  !.fan_out_s = hc.fan_out_s]
        ELSE [m2 EXCEPT
           !.Chepin = IF mask["chepin"] = 1 THEN ch.chepin ELSE @,
           !.HenrynCafura = IF both THEN hc.value ELSE @,
           !.fan_in_i = IF both THEN hc.fan_in_i ELSE @,
           !.fan_in_s = IF both THEN hc.fan_in_s ELSE @,
           !.fan_out_i = IF both THEN hc.fan_out_i ELSE @,
           !.fan_out_s = IF both THEN hc.fan_out_s ELSE @,
           !.CardnGlass = IF mask["c&s"] = 1
                            THEN RatAdd(RatInt(fan_out ^ 2), Rat(nargs, fan_out + 1))
                            ELSE @]

\* lines 388-393: the exception get_function_args_count raises in get_chepin
\* or, on the variables get_chepin left, in get_henryncafura_metric; "" when
\* neither does
ArgsRaised(d, f, st, mask, ch) ==
    IF mask["chepin"] = 1 /\ ch.raised # "" THEN ch.raised
    ELSE IF mask["h&c"] = 1 \/ mask["c&s"] = 1
      THEN get_function_args_count(d, f.start,
               IF mask["chepin"] = 1 THEN ch.local_vars ELSE st.vars_local).raised
    ELSE ""

\* lines 388-393: get_chepin deletes from vars_local before Henry and Cafura
\* reads it
AfterFlow(d, f, m2, st, ch, mask) ==
    VarMetrics(m2, ch,
               get_henryncafura_metric(d, f, st.calls_dict,
                   IF mask["chepin"] = 1 THEN ch.local_vars ELSE st.vars_local,
                   st.global_vars_used, m2.CC),
               mask)

\* lines 378-398, which an exception of Halstead_metric.calculate skips
AfterHalstead(d, f, m2, st, bbls, mask, ch) ==
    IF m2.Halstead_basic.raised THEN m2
    ELSE AfterFlow(d, f, FlowMetrics(d, f, m2, st, bbls, mask), st, ch, mask)

\* lines 348-398, once the node graph (if any) is made
AfterGraph(d, f, m, st, bbls, node_graph, mask, ch) ==
    AfterHalstead(d, f,
                  PiHalstead(GraphMetrics(m, st, bbls, node_graph, mask),
                             st, node_graph, mask),
                  st, bbls, mask, ch)

\* what one run of start_analysis leaves: the Metrics_function (m), whether
\* and why it raised, global_vars_dict, and the structures it worked on
Outcome(m, raised, st, bbls, node_graph, made, chepin) ==
    [m |-> m, raised |-> raised, gvd |-> st.gvd, edges |-> st.edges,
     boundaries |-> st.boundaries, bbls |-> bbls, node_graph |-> node_graph,
     graph_made |-> made, vars_local |-> st.vars_local, chepin |-> chepin,
     cases_in_switches |-> st.cases_in_switches]

NoChepin == [p |-> RatZero, m |-> 0, c |-> 0, P_vars |-> {}, M_vars |-> {},
             C_vars |-> {}, chepin |-> RatZero, local_vars |-> EmptyDict, raised |-> ""]

\* the outcome of lines 348-398 with the record m they leave
GraphOutcome(m, st, bbls, g, made, mask, ch, raised) ==
    IF m.Halstead_basic.raised
      THEN Outcome(m, "math domain error", st, bbls, g, made, NoChepin)
    ELSE Outcome(m, raised, st, bbls, g, made,
                 IF mask["chepin"] = 1 /\ ch.raised = "" THEN ch ELSE NoChepin)

\* lines 344-398 with the exception (raised) the variable metrics end in
GraphOutcomes(d, f, m, st, bbls, mask, ch, graphs, made, raised) ==
    {GraphOutcome(AfterGraph(d, f, m, st, bbls, g, mask, ch), st, bbls, g, made, mask, ch,
                  raised) :
       g \in graphs}

\* lines 344-398: one outcome for every node graph make_graph can build
AnalyseGraphs(d, f, m, st, bbls, mask, ch, graphs, made) ==
    GraphOutcomes(d, f, m, st, bbls, mask, ch, graphs, made, ArgsRaised(d, f, st, mask, ch))

\* lines 318-346
AnalyseBlocks(d, f, m, st, bbls, mask) ==
    IF (mask["harr"] = 1 \/ mask["bound"] = 1 \/ mask["pi"] = 1)
         /\ MakeGraphRaises(st.edges, bbls, st.boundaries)
      THEN {Outcome(m, "Error when creating node graph", st, bbls, EmptyDict, FALSE,
                    NoChepin)}
    ELSE AnalyseGraphs(d, f, m, st, bbls, mask, get_chepin(d, st.vars_local, f.start),
                       IF mask["harr"] = 1 \/ mask["bound"] = 1 \/ mask["pi"] = 1
                         THEN MakeGraphOutcomes(st.edges, bbls, st.boundaries)
                         ELSE {EmptyDict},
                       mask["harr"] = 1 \/ mask["bound"] = 1 \/ mask["pi"] = 1)

\* lines 191-346: the loop has run (st); a raise inside it ends the analysis
AnalyseBuilt(d, f, st, mask) ==
    IF st.raised # ""
      THEN {Outcome(AfterBuild(f.name, st), st.raised, st, <<>>, EmptyDict, FALSE, NoChepin)}
    ELSE AnalyseBlocks(d, f, AfterCounts(AfterBuild(f.name, st), st, mask), st,
                       get_bbls(d, f, f.chunks, st.boundaries, st.edges), mask)

AnalyseRoutine(d, f, mask, gvd) ==
    AnalyseBuilt(d, f, ControlFlowBuilder(d, f, gvd), mask)

\* Metrics_function.start_analysis: the set of its possible outcomes
StartAnalysis(d, fea, mask, gvd) == AnalyseRoutine(d, Routine(d, fea), mask, gvd)

(***************************************************************************)
(* Metrics: the module totals and the orchestrator.                        *)
(***************************************************************************)
\* Metrics.__init__
NewTotals ==
    [ total_loc_count |-> 0, average_loc_count |-> RatZero, total_bbl_count |-> 0,
      total_func_count |-> 0, total_condition_count |-> 0, total_assign_count |-> 0,
      R_total |-> RatZero, CC_total |-> 0, CL_total |-> RatZero, ABC_total |-> EmptyDict,
      Halstead_total |-> NewHalstead, CC_modified_total |-> 0, Pivovarsky_total |-> 0,
      Harrison_total |-> 0, boundary_values_total |-> 0, span_metric_total |-> 0,
      Oviedo_total |-> 0, Chepin_total |-> RatZero, global_vars_metric_total |-> RatZero,
      Cocol_total |-> [B |-> ZeroProd, add |-> 0], HenrynCafura_total |-> 0,
      CardnGlass_total |-> RatZero ]

\* Metrics.collect_total_metrics: the totals
collect_total_metrics(t, m) ==
    [t EXCEPT
        !.total_loc_count = @ + m.loc_count,
        !.total_bbl_count = @ + m.bbl_count,
        !.total_func_count = @ + 1,
        !.total_condition_count = @ + m.condition_count,
        !.total_assign_count = @ + m.assign_count,
        !.R_total = RatAdd(@, m.R),
        !.CC_modified_total = @ + m.CC_modified,
        !.Pivovarsky_total = @ + m.Pivovarsky,
        !.Harrison_total = @ + m.Harrison,
        !.boundary_values_total = @ + m.boundary_values,
        !.Halstead_total = [@ EXCEPT !.n1 = @ + m.Halstead_basic.n1,
                                     !.n2 = @ + m.Halstead_basic.n2,
                                     !.N1 = @ + m.Halstead_basic.N1,
                                     !.N2 = @ + m.Halstead_basic.N2],
        !.CC_total = @ + m.CC,
        !.CL_total = RatAdd(@, m.CL),
        !.ABC_total = BagAdd(@, SqrtBag(m.ABC)),
        !.span_metric_total = @ + m.span_metric,
        !.Oviedo_total = @ + m.Oviedo,
        !.Chepin_total = RatAdd(@, m.Chepin),
        !.HenrynCafura_total = @ + m.HenrynCafura,
        !.CardnGlass_total = RatAdd(@, m.CardnGlass)]

\* Metrics.collect_total_metrics, lines 1081-1084: the routine's Cocol
WithCocol(m, mask) ==
    IF mask["cocol"] = 1
      THEN [m EXCEPT !.Cocol = [B |-> m.Halstead_basic.B, add |-> m.CC + m.loc_count]]
      ELSE m

\* Metrics.add_global_vars_metric: the ratio of every entry of functions
GlobalRatio(m, gvd) ==
    IF Cardinality(DOMAIN gvd) > 0
      THEN Rat(m.global_vars_access, Cardinality(DOMAIN gvd))
      ELSE m.global_vars_metric

RECURSIVE RatSum(_)
RatSum(s) == IF s = <<>> THEN RatZero ELSE RatAdd(Head(s), RatSum(Tail(s)))

add_global_vars_metric(fs, gvd) ==
    LET names == SetToSeq(DOMAIN fs)
    IN  RatSum([i \in 1..Len(names) |-> GlobalRatio(fs[names[i]], gvd)])

\* Metrics.collect_final_metrics raises: Halstead_total.calculate does
FinalRaises(t, mask) ==
    (mask["h"] = 1 \/ mask["cocol"] = 1) /\ calculate(t.Halstead_total).raised

\* lines 1035-1036 with the division taken as a floor division
FinalAverageFloor(t) ==
    [t EXCEPT !.average_loc_count =
        IF t.total_func_count > 0
          THEN RatInt(t.total_loc_count \div t.total_func_count) ELSE @]

\* line 1035-1036, which run before anything can raise
FinalAverage(t) ==
    [t EXCEPT !.average_loc_count =
        IF t.total_func_count > 0 THEN Rat(t.total_loc_count, t.total_func_count) ELSE @]

\* Metrics.collect_final_metrics, when it does not raise
collect_final_metrics(t, fs, gvd, mask) ==
    LET t1 == FinalAverage(t)
        t2 == [t1 EXCEPT !.Halstead_total =
                  IF mask["h"] = 1 \/ mask["cocol"] = 1 THEN calculate(@) ELSE @]
    IN  [t2 EXCEPT
           !.global_vars_metric_total =
               IF mask["global"] = 1 THEN add_global_vars_metric(fs, gvd) ELSE @,
           !.Cocol_total =
               IF mask["cocol"] = 1
                 THEN [B |-> t2.Halstead_total.B,
                       add |-> @.add + t2.CC_total + t2.total_loc_count]
                 ELSE @]

\* the structures of the routine the last step analysed
NoRoutine ==
    [fea |-> BADADDR,
     o |-> Outcome(NewFunction(""), "", NewAnalysis(BADADDR, EmptyDict), <<>>,
                   EmptyDict, FALSE, NoChepin)]

\* the addresses the while loop visits from ea on
RECURSIVE Chain(_, _)
Chain(d, ea) == IF ea = BADADDR THEN {} ELSE {ea} \cup Chain(d, get_next_func(d, ea))

\* The analysis of a routine reads the database and the mask and nothing
\* else of the run: it only writes global_vars_dict (line 266).  Its outcomes
\* at every address the walk can reach are therefore fixed when the run
\* starts; each is computed with an empty global_vars_dict, so that its gvd
\* holds what the analysis writes.
Outcomes(d, mask) ==
    [a \in UNION {Chain(d, d.segs[i]) : i \in 1..Len(d.segs)} |->
        StartAnalysis(d, a, mask, EmptyDict)]

\* global_vars_dict after an analysis has written the entries of w into it
Written(gvd, w) == [k \in DOMAIN gvd \cup DOMAIN w |-> IF k \in DOMAIN w THEN w[k] ELSE gvd[k]]

\* Metrics.start_analysis, the for loop: the next segment is entered
NextSegment ==
    /\ pc = "for"
    /\ seg_i < Len(db.segs)
    /\ seg_i' = seg_i + 1
    /\ function_ea' = db.segs[seg_i + 1]
    /\ pc' = "while"
    /\ UNCHANGED <<db, metrics_mask, functions, totals, global_vars_dict, cur, outcomes>>

\* the while loop ends: get_next_func found no further function
EndWalk ==
    /\ pc = "while"
    /\ function_ea = BADADDR
    /\ pc' = "for"
    /\ UNCHANGED <<db, metrics_mask, seg_i, function_ea, functions, totals,
                   global_vars_dict, cur, outcomes>>

\* lines 1011-1013: the routine has an entry in functions already
SkipAnalysed ==
    /\ pc = "while"
    /\ function_ea # BADADDR
    /\ get_func_name(db, function_ea) \in DOMAIN functions
    /\ function_ea' = get_next_func(db, function_ea)
    /\ UNCHANGED <<db, metrics_mask, pc, seg_i, functions, totals,
                   global_vars_dict, cur, outcomes>>

\* lines 1015-1019, 1028-1029: the analysis returns and is folded in
RoutineCompletes ==
    /\ pc = "while"
    /\ function_ea # BADADDR
    /\ get_func_name(db, function_ea) \notin DOMAIN functions
    /\ \E o \in outcomes[function_ea] :
          /\ o.raised = ""
          /\ functions' = Put(functions, get_func_name(db, function_ea),
                              WithCocol(o.m, metrics_mask))
          /\ totals' = collect_total_metrics(totals, o.m)
          /\ global_vars_dict' = Written(global_vars_dict, o.gvd)
          /\ cur' = [fea |-> function_ea, o |-> o]
    /\ function_ea' = get_next_func(db, function_ea)
    /\ UNCHANGED <<db, metrics_mask, pc, seg_i, outcomes>>

\* lines 1015-1027 with the walk of the segment given up at the exception
RoutineFailsStops ==
    /\ pc = "while"
    /\ function_ea # BADADDR
    /\ get_func_name(db, function_ea) \notin DOMAIN functions
    /\ \E o \in outcomes[function_ea] :
          /\ o.raised # ""
          /\ functions' = Put(functions, get_func_name(db, function_ea), o.m)
          /\ global_vars_dict' = Written(global_vars_dict, o.gvd)
          /\ cur' = [fea |-> function_ea, o |-> o]
    /\ function_ea' = BADADDR
    /\ UNCHANGED <<db, metrics_mask, pc, seg_i, totals, outcomes>>

\* lines 1015-1027: the analysis raises; the Metrics_function stored before
\* the call stays in functions
RoutineFails ==
    /\ pc = "while"
    /\ function_ea # BADADDR
    /\ get_func_name(db, function_ea) \notin DOMAIN functions
    /\ \E o \in outcomes[function_ea] :
          /\ o.raised # ""
          /\ functions' = Put(functions, get_func_name(db, function_ea), o.m)
          /\ global_vars_dict' = Written(global_vars_dict, o.gvd)
          /\ cur' = [fea |-> function_ea, o |-> o]
    /\ function_ea' = get_next_func(db, function_ea)
    /\ UNCHANGED <<db, metrics_mask, pc, seg_i, totals, outcomes>>

\* line 1030: collect_final_metrics returns
CollectFinal ==
    /\ pc = "for"
    /\ seg_i = Len(db.segs)
    /\ ~FinalRaises(totals, metrics_mask)
    /\ totals' = collect_final_metrics(totals, functions, global_vars_dict, metrics_mask)
    /\ functions' = IF metrics_mask["global"] = 1
                      THEN [n \in DOMAIN functions |->
                              [functions[n] EXCEPT !.global_vars_metric =
                                  GlobalRatio(functions[n], global_vars_dict)]]
                      ELSE functions
    /\ pc' = "done"
    /\ UNCHANGED <<db, metrics_mask, seg_i, function_ea, global_vars_dict, cur, outcomes>>

\* line 1030: collect_final_metrics raises and the run ends with the error
CollectFinalRaises ==
    /\ pc = "for"
    /\ seg_i = Len(db.segs)
    /\ FinalRaises(totals, metrics_mask)
    /\ totals' = FinalAverage(totals)
    /\ pc' = "crashed"
    /\ UNCHANGED <<db, metrics_mask, seg_i, function_ea, functions,
                   global_vars_dict, cur, outcomes>>

Next ==
    \/ NextSegment
    \/ EndWalk
    \/ SkipAnalysed
    \/ RoutineCompletes
    \/ RoutineFails
    \/ CollectFinal
    \/ CollectFinalRaises

\* the state Metrics() and the start of Metrics.start_analysis leave
Start(d, mask) ==
    /\ db = d
    /\ metrics_mask = mask
    /\ pc = "for"
    /\ seg_i = 0
    /\ function_ea = BADADDR
    /\ functions = EmptyDict
    /\ totals = NewTotals
    /\ global_vars_dict = EmptyDict
    /\ cur = NoRoutine
    /\ outcomes = Outcomes(d, mask)

(***************************************************************************)
(* Databases.                                                              *)
(***************************************************************************)
Reg(name) == [text |-> Spell[name], type |-> o_reg, value |-> 0, drefs |-> 0]
Near(t) == [text |-> Spell["loc"] \o HexText(t), type |-> o_near, value |-> t, drefs |-> 0]

NoIns ==
    [code |-> TRUE, call |-> FALSE, stop |-> FALSE, refs |-> {}, chg |-> FALSE,
     use |-> FALSE, mnem |-> Spell["nop"], ops |-> <<>>, sw |-> <<>>]
MovIns == [NoIns EXCEPT !.mnem = Spell["mov"], !.chg = TRUE, !.ops = <<Reg("eax"), Reg("ebx")>>]
RetIns == [NoIns EXCEPT !.mnem = Spell["retn"], !.stop = TRUE]
JccIns(t) == [NoIns EXCEPT !.mnem = Spell["jz"], !.refs = {t}, !.ops = <<Near(t)>>]
JmpIns(t) == [NoIns EXCEPT !.mnem = Spell["jmp"], !.refs = {t}, !.stop = TRUE, !.ops = <<Near(t)>>]
\* the indirect jump of the switch idiom that starts at startea, with one case
\* for each of its targets
SwIns(startea, targets) ==
    [NoIns EXCEPT !.mnem = Spell["jmp"], !.refs = targets, !.stop = TRUE, !.ops = <<Reg("eax")>>,
                  !.sw = <<startea, Cardinality(targets)>>]

AllOn == [x \in metrics_list |-> 1]
AllOff == [x \in metrics_list |-> 0]

\* One routine "f" at address 0: one chunk of 1 to MaxAddr instructions, or
\* an entry chunk of two instructions and a second chunk behind an address of
\* other code, where a second segment starts; the last address is outside
\* the routine.  Each instruction is a mov, a return, or a conditional or
\* unconditional jump to any address, or the jump of one of two switch idioms,
\* of three and of two cases; at most MaxAddr \div 2 are jumps.
CfgJumps(top) ==
    {JccIns(t) : t \in 0..(top - 1)} \cup {JmpIns(t) : t \in 0..(top - 1)}
    \cup {SwIns(0, 1..3), SwIns(1, 1..2)}

CfgLayouts ==
    {[top |-> n + 1, ea |-> 0, chunks |-> <<<<0, n>>>>, segs |-> <<0>>] : n \in 1..MaxAddr}
    \cup
    {[top |-> MaxAddr + 1, ea |-> 0, chunks |-> <<<<0, 2>>, <<3, MaxAddr>>>>,
      segs |-> <<0, 3>>]}

\* the addresses of the routine of a layout
Owned(l) == UNION {Heads(l, l.chunks[i][1], l.chunks[i][2]) : i \in 1..Len(l.chunks)}

CfgDb(l, jumps, others) ==
    [top |-> l.top,
     ins |-> [a \in 0..(l.top - 1) |->
                IF a \in DOMAIN jumps THEN jumps[a]
                ELSE IF a \in DOMAIN others THEN others[a] ELSE MovIns],
     funcs |-> <<[name |-> "f", ea |-> l.ea, chunks |-> l.chunks]>>,
     segs |-> l.segs]

InitCFG ==
    \E l \in CfgLayouts :
      \E J \in {S \in SUBSET Owned(l) : Cardinality(S) <= MaxAddr \div 2} :
        \E jumps \in [J -> CfgJumps(l.top)] :
          \E others \in [(0..(l.top - 2)) \ J -> {MovIns, RetIns}] :
            Start(CfgDb(l, jumps, others), AllOn)

SpecCFG == InitCFG /\ [][Next]_vars

(***************************************************************************)
(* Modules of several routines, analysed under several masks.              *)
(***************************************************************************)
\* number of routines of a module drawn by Init
MaxRoutines == 2

Displ(name, v) ==
    [text |-> <<"[">> \o Spell["ebp"] \o <<"+">> \o Spell[name] \o <<"]">>,
     type |-> o_displ, value |-> v, drefs |-> 0]
Imm(v) == [text |-> HexText(v), type |-> o_imm, value |-> v, drefs |-> 0]
\* a datum with two data references: a global variable
Glob(name) == [text |-> Spell["ds:"] \o Spell[name], type |-> o_mem, value |-> 256, drefs |-> 2]

\* the instructions of a routine of each kind, placed at address b
Body(kind, b) ==
    IF kind = "vars"
      THEN << [NoIns EXCEPT !.mnem = Spell["mov"], !.chg = TRUE,
                            !.ops = <<Displ("var_4", BADADDR - 4), Reg("eax")>>],
              [NoIns EXCEPT !.mnem = Spell["cmp"], !.use = TRUE,
                            !.ops = <<Displ("arg_0", 8), Imm(0)>>],
              [NoIns EXCEPT !.mnem = Spell["mov"], !.chg = TRUE,
                            !.ops = <<Reg("eax"), Glob("g1")>>],
              RetIns >>
    ELSE IF kind = "bad"
      THEN << [NoIns EXCEPT !.mnem = Spell["mov"], !.chg = TRUE,
                            !.ops = <<Glob("g1"), Reg("eax")>>],
              [NoIns EXCEPT !.mnem = Spell["jmp"], !.stop = TRUE, !.refs = {BADADDR},
                            !.ops = <<Reg("eax")>>] >>
    ELSE IF kind = "leaf"
      THEN << RetIns >>
    ELSE IF kind = "branch"
      THEN << JccIns(b + 2),
              [NoIns EXCEPT !.mnem = Spell["call"], !.call = TRUE, !.refs = {0},
                            !.ops = <<Near(0)>>],
              [NoIns EXCEPT !.mnem = Spell["add"], !.chg = TRUE,
                            !.ops = <<Reg("esp"), Reg("eax")>>],
              RetIns >>
    ELSE IF kind = "loop"
      THEN << MovIns, JmpIns(b), MovIns >>
    ELSE IF kind = "stores"
      THEN << [NoIns EXCEPT !.mnem = Spell["mov"], !.chg = TRUE,
                            !.ops = <<Displ("var_4", BADADDR - 4), Reg("eax")>>],
              [NoIns EXCEPT !.mnem = Spell["mov"], !.chg = TRUE,
                            !.ops = <<Reg("eax"), Displ("var_8", BADADDR - 8)>>],
              [NoIns EXCEPT !.mnem = Spell["mov"], !.chg = TRUE,
                            !.ops = <<Displ("var_8", BADADDR - 8), Reg("ebx")>>],
              [NoIns EXCEPT !.mnem = Spell["mov"], !.chg = TRUE,
                            !.ops = <<Displ("var_4", BADADDR - 4), Reg("ebx")>>],
              [RetIns EXCEPT !.ops = <<Imm(8)>>] >>
    ELSE << [NoIns EXCEPT !.mnem = Spell["call"], !.call = TRUE] >>

\* "vars" uses a local, an argument in a comparison and a global; "bad" has
\* a reference to BADADDR; "leaf" has no operand; "branch" has a conditional
\* jump and a call of address 0 that "add esp, eax" follows; "loop" jumps
\* back from the middle of its only block, which make_graph cannot resolve;
\* "stores" writes a local twice, writes another after it has read it and
\* returns with "retn 8"; "callbad" calls through no operand
BodyKinds == {"vars", "bad", "leaf", "branch", "loop", "stores", "callbad"}

\* the names of the routines of a module
FuncNames == <<"f1", "f2", "f3", "f4">>

\* the routines of a module: kinds placed one after the other from address b
RECURSIVE Layout(_, _, _)
Layout(kinds, i, b) ==
    IF i > Len(kinds) THEN <<>>
    ELSE <<[name |-> FuncNames[i], ea |-> b, kind |-> kinds[i],
            chunks |-> <<<<b, b + Len(Body(kinds[i], b))>>>>]>>
         \o Layout(kinds, i + 1, b + Len(Body(kinds[i], b)))

\* A module: its routines one after the other, and with gap = 1 an
\* instruction that belongs to no routine before them and one after them,
\* where a second segment starts.
ModuleDb(kinds, gap) ==
    LET fs == Layout(kinds, 1, gap)
        last == IF fs = <<>> THEN gap ELSE fs[Len(fs)].chunks[1][2]
        top == last + gap
        owner(a) == CHOOSE i \in 1..Len(fs) : fs[i].ea <= a /\ a < fs[i].chunks[1][2]
    IN  [top |-> top,
         ins |-> [a \in 0..(top - 1) |->
                    IF a < gap \/ a >= last THEN NoIns
                    ELSE Body(fs[owner(a)].kind, fs[owner(a)].ea)[a - fs[owner(a)].ea + 1]],
         funcs |-> [i \in 1..Len(fs) |->
                      [name |-> fs[i].name, ea |-> fs[i].ea, chunks |-> fs[i].chunks]],
         segs |-> IF gap = 1 THEN <<0, top - 1>>
                  ELSE IF top = 0 THEN <<>> ELSE <<0>>]

\* the masks: everything, nothing, one metric only, all metrics but one
SingleMasks == {[x \in metrics_list |-> IF x = k THEN 1 ELSE 0] : k \in metrics_list}
Masks ==
    {AllOn, AllOff} \cup SingleMasks
    \cup {[x \in metrics_list |-> IF x = k THEN 0 ELSE 1] : k \in metrics_list}

Init ==
    \E n \in 0..MaxRoutines :
      \E kinds \in [1..n -> BodyKinds] :
        \E gap \in {0, 1} :
          \E mask \in Masks :
            Start(ModuleDb(kinds, gap), mask)

Spec == Init /\ [][Next]_vars

\* The same modules under the full mask, the empty mask and the masks of one
\* metric, run to the end: the script is sequential, a step that can be taken
\* is taken.
FairInit ==
    \E n \in 0..MaxRoutines :
      \E kinds \in [1..n -> BodyKinds] :
        \E gap \in {0, 1} :
          \E mask \in {AllOn, AllOff} \cup SingleMasks :
            Start(ModuleDb(kinds, gap), mask)

FairSpec == FairInit /\ [][Next]_vars /\ WF_vars(Next)

(***************************************************************************)
(* Properties of one routine's control-flow analysis (SpecCFG).            *)
(***************************************************************************)
\* the routine the last step analysed and its instruction addresses
CurRoutine == Routine(db, cur.fea)
CurHeads ==
    UNION {Heads(db, CurRoutine.chunks[i][1], CurRoutine.chunks[i][2]) :
             i \in 1..Len(CurRoutine.chunks)}

\* the partitioner has run for the routine analysed last
Partitioned == cur.fea # BADADDR /\ cur.o.raised \in {"", "Error when creating node graph"}

\* the (block, position) places of a list of blocks
Places(bbls) == UNION {{<<i, j>> : j \in 1..Len(bbls[i])} : i \in 1..Len(bbls)}

\* C1: the blocks get_bbls returns are a disjoint cover of the routine's
\* instructions: every address of the routine's chunks is at exactly one
\* place of exactly one block, every place holds an address of the routine,
\* and no block is empty.
C1_BlocksPartition ==
    Partitioned =>
        LET places == Places(cur.o.bbls)
            heads == CurHeads
        IN  /\ \A h \in heads :
                  Cardinality({p \in places : cur.o.bbls[p[1]][p[2]] = Hex(h)}) = 1
            /\ \A p \in places : UnHex(cur.o.bbls[p[1]][p[2]]) \in heads
            /\ \A i \in 1..Len(cur.o.bbls) : Len(cur.o.bbls[i]) > 0

\* a routine split both at a boundary and after a conditional branch that is
\* no boundary
C1_Witness ==
    /\ Partitioned
    /\ Len(cur.o.bbls) >= 3
    /\ \E i \in 1..Len(cur.o.bbls) : Len(cur.o.bbls[i]) >= 2
    /\ \E h \in CurHeads :
          /\ h \notin cur.o.boundaries
          /\ GetInstructionType(db, CurRoutine.start, CurRoutine.end, h)
                = "CONDITIONAL_BRANCH"

\* no instruction of the routine transfers control inside the routine: none
\* has a reference the builder keeps, none a reference the classifier takes
\* for a branch of the routine
NoTransfers ==
    \A h \in CurHeads : \A r \in db.ins[h].refs :
        /\ r \notin CurHeads
        /\ ~(r >= CurRoutine.start /\ r <= CurRoutine.end)

\* C6: a routine without intra-routine control transfers is one block; the
\* builder leaves boundaries = {routine start} and no edge, the cyclomatic
\* complexity is 1, and the node graph has exactly one node, the routine
\* start, mapped to None.
C6_SingleBlock ==
    (cur.fea # BADADDR /\ cur.o.raised = "" /\ cur.o.graph_made /\ NoTransfers) =>
        /\ Len(cur.o.bbls) = 1
        /\ cur.o.boundaries = {cur.fea}
        /\ cur.o.edges = {}
        /\ cur.o.m.CC = 1
        /\ DOMAIN cur.o.node_graph = {Hex(cur.fea)}
        /\ cur.o.node_graph[Hex(cur.fea)] = NoneVal

\* such a routine of several instructions, one of them a jump out of it
C6_Witness ==
    /\ cur.fea # BADADDR /\ cur.o.raised = "" /\ cur.o.graph_made /\ NoTransfers
    /\ Cardinality(CurHeads) >= 3
    /\ \E h \in CurHeads : CodeRefsFrom(db, h) # {}
    /\ pc = "done"

\* the database with every address moved up by k
RelabelOp(op, k) == IF op.type = o_near THEN Near(op.value + k) ELSE op
Relabel(d, k) ==
    [top |-> d.top + k,
     ins |-> [a \in 0..(d.top + k - 1) |->
                IF a < k THEN [NoIns EXCEPT !.code = FALSE]
                ELSE [d.ins[a - k] EXCEPT
                        !.refs = {IF r = BADADDR THEN r ELSE r + k : r \in @},
                        !.ops = [i \in 1..Len(@) |-> RelabelOp(@[i], k)]]],
     funcs |-> [i \in 1..Len(d.funcs) |->
                  [name |-> d.funcs[i].name, ea |-> d.funcs[i].ea + k,
                   chunks |-> [j \in 1..Len(d.funcs[i].chunks) |->
                                 <<d.funcs[i].chunks[j][1] + k,
                                   d.funcs[i].chunks[j][2] + k>>]]],
     segs |-> [i \in 1..Len(d.segs) |-> d.segs[i] + k]]

\* the address that mirrors a within the database
Mirror(a) == Hex((db.top - 1) - UnHex(a))

\* C7: with cc selected, the cyclomatic complexity of a routine is
\* |edges| - |boundaries| + 2 over the routine's sets; it is the same for the
\* sets relabelled by an injective map of the addresses (the mirror image),
\* and for the routine analysed again at addresses moved up by one.  The
\* outcomes of one routine differ in the order of the successor lists only and
\* share the complexity and the sets, so the analysis at the moved addresses
\* is compared with one of them.
C7_CyclomaticFormula ==
    (pc = "done" /\ cur.fea # BADADDR /\ cur.o.raised = "" /\ metrics_mask["cc"] = 1) =>
        /\ cur.o.m.CC = Cardinality(cur.o.edges) - Cardinality(cur.o.boundaries) + 2
        /\ cur.o.m.CC = Cardinality({<<Mirror(e[1]), Mirror(e[2])>> : e \in cur.o.edges})
                        - Cardinality({Mirror(Hex(b)) : b \in cur.o.boundaries}) + 2
        /\ \A c \in outcomes[cur.fea] :
              c.m.CC = cur.o.m.CC /\ c.edges = cur.o.edges /\ c.boundaries = cur.o.boundaries
        /\ cur.o = (CHOOSE c \in outcomes[cur.fea] : TRUE) =>
              \A o \in StartAnalysis(Relabel(db, 1), cur.fea + 1, metrics_mask, EmptyDict) :
                 /\ o.raised = ""
                 /\ o.m.CC = cur.o.m.CC
                 /\ Cardinality(o.edges) = Cardinality(cur.o.edges)
                 /\ Cardinality(o.boundaries) = Cardinality(cur.o.boundaries)

\* a routine of cyclomatic complexity 3 or more
C7_Witness ==
    /\ pc = "done" /\ cur.fea # BADADDR /\ cur.o.raised = "" /\ metrics_mask["cc"] = 1
    /\ cur.o.m.CC >= 3
    /\ Cardinality(cur.o.edges) >= 4

\* the node graph {A->B, A->C, B->D, C->D} over four blocks of one
\* instruction each, D terminal
IsDiamond ==
    /\ cur.fea # BADADDR /\ cur.o.raised = "" /\ cur.o.graph_made
    /\ metrics_mask["bound"] = 1 /\ metrics_mask["harr"] = 1
    /\ cur.o.bbls = <<<<"0x0">>, <<"0x1">>, <<"0x2">>, <<"0x3">>>>
    /\ cur.o.node_graph \in {[n \in {"0x0", "0x1", "0x2", "0x3"} |->
                                IF n = "0x0" THEN q
                                ELSE IF n = "0x3" THEN NoneVal ELSE <<"0x3">>] :
                             q \in Orderings({"0x1", "0x2"})}

\* C10, as claimed: on the diamond the boundary-value metric and the
\* Harrison metric of the routine are equal.
C10_DiamondEqual == IsDiamond => cur.o.m.boundary_values = cur.o.m.Harrison

\* C10, amended: on the diamond the boundary-value metric is 4 (3 for the
\* subgraph of A, 1 each for B and C, minus 1) and the Harrison metric is 7
\* (4 for A with its subgraph, 1 each for B, C and D).
C10_DiamondValues ==
    IsDiamond => cur.o.m.boundary_values = 4 /\ cur.o.m.Harrison = 7

C10_Witness == IsDiamond /\ pc = "done"

\* the node graph has been made for the routine analysed last
GraphMade == cur.fea # BADADDR /\ cur.o.raised = "" /\ cur.o.graph_made

\* the successors of a node of a node graph
Successors(node_graph, node) ==
    IF Get(node_graph, node, NoneVal) = NoneVal THEN {} ELSE Range(node_graph[node])

\* the least set of nodes that holds S and the successors of its nodes
RECURSIVE Closure(_, _)
Closure(node_graph, S) ==
    LET N == S \cup UNION {Successors(node_graph, n) : n \in S}
    IN  IF N = S THEN S ELSE Closure(node_graph, N)

\* the nodes other than the node that a path from it leads to
Descendants(node_graph, node) ==
    Closure(node_graph, Successors(node_graph, node)) \ {node}

\* the subgraph node count of a traversal that starts at the node
CountFrom(node) == get_subgraph_nodes_count(node, cur.o.node_graph, <<>>)

\* C11, as claimed: the subgraph node count of a root counts the root once
\* together with every distinct node reachable from it; on the diamond the
\* traversal rooted at A gives 4.
C11_RootCounted ==
    /\ IsDiamond => CountFrom("0x0").n = 4
    /\ GraphMade => \A k \in DOMAIN cur.o.node_graph :
          CountFrom(k).n = Cardinality(Descendants(cur.o.node_graph, k) \cup {k})

\* C11, amended: the subgraph node count of a root is the number of distinct
\* nodes other than the root that are reachable from it; on the diamond the
\* traversal rooted at A gives 3 (B, C and D).
C11_RootNotCounted ==
    /\ IsDiamond => CountFrom("0x0").n = 3
    /\ GraphMade => \A k \in DOMAIN cur.o.node_graph :
          CountFrom(k).n = Cardinality(Descendants(cur.o.node_graph, k))

\* the traversal of the diamond from A has passed A, B, D and C
C11_Witness == IsDiamond /\ CountFrom("0x0").passed = <<"0x0", "0x1", "0x3", "0x2">>

\* the entries of the blocks no edge of the node graph leaves
TerminalBlocks ==
    {cur.o.bbls[i][1] : i \in 1..Len(cur.o.bbls)}
        \ {GraphKey(e[1], cur.o.bbls, cur.o.boundaries) : e \in cur.o.edges}

\* C12: every block of the partition is a key of the node graph make_graph
\* returns, by its entry address; a block no edge leaves is mapped to None,
\* and so is the single block of a routine without edges.
C12_BlocksAreKeys ==
    GraphMade =>
        /\ \A i \in 1..Len(cur.o.bbls) : cur.o.bbls[i][1] \in DOMAIN cur.o.node_graph
        /\ \A k \in TerminalBlocks : cur.o.node_graph[k] = NoneVal
        /\ cur.o.edges = {} => \A k \in DOMAIN cur.o.node_graph : cur.o.node_graph[k] = NoneVal

\* a graph of three blocks or more with a terminal block and a block with
\* successors, in a finished run
C12_Witness ==
    /\ GraphMade /\ pc = "done"
    /\ Len(cur.o.bbls) >= 3
    /\ TerminalBlocks # {}
    /\ \E k \in DOMAIN cur.o.node_graph : cur.o.node_graph[k] # NoneVal

\* the conditional branches that do not end their block
InnerBranches ==
    {p \in Places(cur.o.bbls) :
        /\ p[2] < Len(cur.o.bbls[p[1]])
        /\ GetInstructionType(db, CurRoutine.start, CurRoutine.end,
                              UnHex(cur.o.bbls[p[1]][p[2]])) = "CONDITIONAL_BRANCH"}

\* C13, as claimed: every instruction classified as a conditional branch is
\* the last instruction of its block.
C13_BranchEndsBlock == Partitioned => InnerBranches = {}

\* the edges make_graph cannot attribute to a block: the source is neither a
\* boundary nor the last instruction of a block
UnresolvedEdges ==
    {e \in cur.o.edges : GraphKey(e[1], cur.o.bbls, cur.o.boundaries) = ""}

\* C23, as claimed: make_graph never returns a node graph when the source of
\* an edge is neither a boundary nor the last instruction of a block; the
\* analysis of the routine raises instead.
C23_UnresolvedEdgeRaises == GraphMade => UnresolvedEdges = {}

\* C24, as claimed: the boundaries the builder leaves hold the start address
\* of every chunk of the routine.
C24_ChunkStartsAreBoundaries ==
    Partitioned =>
        \A i \in 1..Len(CurRoutine.chunks) : CurRoutine.chunks[i][1] \in cur.o.boundaries

\* the chunk of the routine analysed last that holds the address
ChunkOf(h) ==
    CurRoutine.chunks[CHOOSE i \in 1..Len(CurRoutine.chunks) :
                         h >= CurRoutine.chunks[i][1] /\ h < CurRoutine.chunks[i][2]]

\* the references the builder keeps for an instruction of the routine
KeptRefs(h) ==
    RefsWithFlow(db, ChunkOf(h), h, RefsFiltered(db, CurRoutine.chunks, h))

\* C26, as claimed: for every reference r kept for an instruction h the
\* edges hold (h, r), and when the flow reaches r from the instruction before
\* it they also hold the edge to r from that instruction, or from r itself
\* when there is no instruction before r.
C26_EdgesOfReferences ==
    Partitioned =>
        \A h \in CurHeads : \A r \in KeptRefs(h) :
            /\ <<Hex(h), Hex(r)>> \in cur.o.edges
            /\ is_flow(db, r) =>
                  IF prev_head(db, r, 0) # BADADDR
                    THEN <<Hex(prev_head(db, r, 0)), Hex(r)>> \in cur.o.edges
                    ELSE <<Hex(r), Hex(r)>> \in cur.o.edges

\* the entry addresses of the blocks that hold the address
EntriesOf(addr) ==
    {cur.o.bbls[i][1] : i \in {j \in 1..Len(cur.o.bbls) : addr \in Range(cur.o.bbls[j])}}

\* the edges the node graph does not hold under the entry of the block of
\* their source
LostEdges ==
    {e \in cur.o.edges :
        \A k \in EntriesOf(e[1]) : e[2] \notin Successors(cur.o.node_graph, k)}

\* C27, as claimed: the node graph keeps every edge: the successors stored
\* under the entry of the block that holds the source of an edge include its
\* target, whether the source is the entry of the block, its last instruction
\* or an instruction in between.
C27_EdgesPreserved == GraphMade => LostEdges = {}

\* C28: the builder leaves at least one boundary and at least as many edges
\* as boundaries but one, every boundary other than the routine start being
\* the target of an edge; so the cyclomatic complexity is at least 1 and R is
\* the quotient of the two counts, with a divisor that is not zero.
C28_EdgesCoverBoundaries ==
    Partitioned =>
        /\ Cardinality(cur.o.boundaries) >= 1
        /\ \A b \in cur.o.boundaries \ {cur.fea} : \E e \in cur.o.edges : e[2] = Hex(b)
        /\ Cardinality(cur.o.edges) >= Cardinality(cur.o.boundaries) - 1
        /\ metrics_mask["cc"] = 1 => cur.o.m.CC >= 1
        /\ cur.o.m.R = Rat(Cardinality(cur.o.edges), Cardinality(cur.o.boundaries))

\* a routine of two chunks with three boundaries and no more edges than two
C28_Witness ==
    /\ Partitioned /\ pc = "done"
    /\ Len(CurRoutine.chunks) = 2
    /\ Cardinality(cur.o.boundaries) = 3
    /\ Cardinality(cur.o.edges) = 2
    /\ cur.o.m.CC = 1

\* C30, as claimed: the basic-block count reported for a routine, the number
\* of its boundaries, is the number of blocks of its partition: every
\* boundary is the entry of exactly one block and every block starts at a
\* boundary.
C30_CountIsBlocks ==
    (Partitioned /\ CurHeads # {}) =>
        /\ cur.o.m.bbl_count = Len(cur.o.bbls)
        /\ \A b \in cur.o.boundaries :
              Cardinality({i \in 1..Len(cur.o.bbls) : cur.o.bbls[i][1] = Hex(b)}) = 1
        /\ \A i \in 1..Len(cur.o.bbls) : UnHex(cur.o.bbls[i][1]) \in cur.o.boundaries

\* the sum of the values of f over the set S
SumOver(f, S) ==
    LET q == SetToSeq(S)
    IN  SumSeq([i \in 1..Len(q) |-> f[q[i]]])

\* the number of successors of a node of the node graph made
OutDegree(k) == Cardinality(Successors(cur.o.node_graph, k))

\* C14, as claimed: the boundary-value metric is the sum over all nodes of
\* the subgraph node count of a node with two successors or more and of 1 for
\* every other node, the terminal nodes included, minus 1.
C14_TerminalsCounted ==
    (GraphMade /\ metrics_mask["bound"] = 1) =>
        cur.o.m.boundary_values =
            SumOver([k \in DOMAIN cur.o.node_graph |->
                        IF OutDegree(k) >= 2 THEN CountFrom(k).n ELSE 1],
                    DOMAIN cur.o.node_graph) - 1

\* the Harrison traversal that starts at the node
ComplexityFrom(k) ==
    get_node_complexity(k, cur.o.node_graph, BblsByFirst(cur.o.bbls), <<>>)

\* the number of instructions of the block a node stands for
BlockLen(k) ==
    IF k \in DOMAIN BblsByFirst(cur.o.bbls) THEN Len(BblsByFirst(cur.o.bbls)[k]) ELSE 0

\* the instructions of the blocks of the descendants of a node
DescendantsLen(k) ==
    SumOver([d \in Descendants(cur.o.node_graph, k) |-> BlockLen(d)],
            Descendants(cur.o.node_graph, k))

\* the list has no element twice
NoRepeats(q) == Cardinality(Range(q)) = Len(q)

\* C15: on every node graph, cyclic ones included, the traversals of
\* get_subgraph_nodes_count and get_node_complexity end; a traversal passes
\* its root and each node reachable from it exactly once; and its result is
\* that of the nodes reachable from its root alone, whatever the traversals
\* from other roots have passed.
C15_TraversalsOnce ==
    GraphMade => \A k \in DOMAIN cur.o.node_graph :
        LET count == CountFrom(k)
            complexity == ComplexityFrom(k)
            below == Descendants(cur.o.node_graph, k)
        IN  /\ NoRepeats(count.passed)
            /\ Range(count.passed) = below \cup {k}
            /\ count.n = Cardinality(below)
            /\ NoRepeats(complexity.passed)
            /\ Range(complexity.passed) = below \cup {k}
            /\ complexity.n = DescendantsLen(k)

\* a graph with a node that is its own successor and a node of two
\* successors on a cycle through another node
C15_Witness ==
    /\ GraphMade /\ pc = "done"
    /\ \E k \in DOMAIN cur.o.node_graph : k \in Successors(cur.o.node_graph, k)
    /\ \E k \in DOMAIN cur.o.node_graph :
          /\ OutDegree(k) = 2
          /\ \E d \in Descendants(cur.o.node_graph, k) :
                k \in Closure(cur.o.node_graph, Successors(cur.o.node_graph, d))

\* the switch idioms the instructions of the routine belong to, each once
Switches == {db.ins[h].sw : h \in {x \in CurHeads : db.ins[x].code}} \ {<<>>}

\* the modified cyclomatic complexity as specified: a switch of c cases
\* takes c - 1 from |edges| - |boundaries| + 2
SpecifiedModifiedCC ==
    (Cardinality(cur.o.edges) - Cardinality(cur.o.boundaries) + 2)
        - SumOver([w \in Switches |-> w[2] - 1], Switches)

\* C16, as claimed: the Pivovarsky metric, when selected, is the routine's
\* modified cyclomatic complexity plus the sum of the subgraph node counts of
\* the nodes of exactly two successors, with no decrement.
C16_PivovarskyFormula ==
    (GraphMade /\ cur.o.m.function_name # "" /\ metrics_mask["pi"] = 1) =>
        cur.o.m.Pivovarsky =
            SpecifiedModifiedCC
            + SumOver([k \in DOMAIN cur.o.node_graph |->
                          IF OutDegree(k) = 2 THEN CountFrom(k).n ELSE 0],
                      DOMAIN cur.o.node_graph)

\* C18, as claimed: the modified cyclomatic complexity, when selected, is
\* |edges| - |boundaries| + 2 minus the sum of c - 1 over the distinct
\* switches of the routine, a switch met at several instructions counted once.
C18_ModifiedCCFormula ==
    (cur.fea # BADADDR /\ cur.o.raised = "" /\ metrics_mask["cc_mod"] = 1) =>
        cur.o.m.CC_modified = SpecifiedModifiedCC

\* C17: the Harrison metric is the sum over the nodes of the node graph of
\* the node's own instruction count and, for the nodes of exactly two
\* successors, of the instruction counts of its distinct descendants.
C17_HarrisonFormula ==
    (GraphMade /\ metrics_mask["harr"] = 1) =>
        cur.o.m.Harrison =
            SumOver([k \in DOMAIN cur.o.node_graph |->
                        BlockLen(k) + (IF OutDegree(k) = 2 THEN DescendantsLen(k) ELSE 0)],
                    DOMAIN cur.o.node_graph)

\* a graph with a node of three successors, a node of two and a node of one
C17_Witness ==
    /\ GraphMade /\ metrics_mask["harr"] = 1 /\ pc = "done"
    /\ {1, 2, 3} \subseteq {OutDegree(k) : k \in DOMAIN cur.o.node_graph}

(***************************************************************************)
(* Properties of the module run (Spec, FairSpec).                          *)
(***************************************************************************)
\* the name of the routine the last step analysed
CurName == get_func_name(db, cur.fea)

\* the instruction at the address writes the local variable: a mov with the
\* variable in its first operand
Writes(local_var, addr) ==
    /\ StartsWith(db.ins[UnHex(addr)].mnem, Spell["mov"])
    /\ Len(get_instr_operands(db, UnHex(addr))) >= 1
    /\ SubSeqOf(local_var, get_instr_operands(db, UnHex(addr))[1].text)

\* C19, as claimed: the Oviedo metric is |edges| plus the number of recorded
\* references to local variables minus one for each variable whose first
\* recorded use is a write.
C19_OviedoFirstWrite ==
    (cur.fea # BADADDR /\ cur.o.raised = "" /\ metrics_mask["oviedo"] = 1) =>
        cur.o.m.Oviedo =
            Cardinality(cur.o.edges)
            + SumOver([v \in DOMAIN cur.o.vars_local |->
                          Len(cur.o.vars_local[v])
                          - (IF Writes(v, cur.o.vars_local[v][1]) THEN 1 ELSE 0)],
                      DOMAIN cur.o.vars_local)

\* C2, as claimed: the variables get_chepin counts as arguments (P), as
\* locals never compared (M) and as compared (C) are pairwise disjoint, so
\* that P + 2M + 3C counts every variable once.
C2_ChepinDisjoint ==
    (cur.fea # BADADDR /\ cur.o.raised = "" /\ metrics_mask["chepin"] = 1) =>
        /\ cur.o.chepin.P_vars \cap cur.o.chepin.M_vars = {}
        /\ cur.o.chepin.P_vars \cap cur.o.chepin.C_vars = {}
        /\ cur.o.chepin.M_vars \cap cur.o.chepin.C_vars = {}

\* the functions mapping without the record of name n
Without(fs, n) == [x \in DOMAIN fs \ {n} |-> fs[x]]

\* C3, as claimed: a routine whose analysis raised has no record in the
\* functions mapping, and the module's global-access ratio total is the sum
\* over the other routines only.
C3_FailedDiscarded ==
    (cur.fea # BADADDR /\ cur.o.raised # "") =>
        /\ CurName \notin DOMAIN functions
        /\ (pc = "done" /\ metrics_mask["global"] = 1) =>
              totals.global_vars_metric_total
                 = add_global_vars_metric(Without(functions, CurName), global_vars_dict)

\* the addresses at which the walk over the segments meets a name first
Visits == UNION {Chain(db, db.segs[i]) : i \in 1..Len(db.segs)}
FirstVisits ==
    {a \in Visits : \A b \in Visits : get_func_name(db, b) = get_func_name(db, a) => a <= b}

\* the analysis of the routine at ea raises
Raises(ea) == \E o \in outcomes[ea] : o.raised # ""

\* the walk over the segments has ended
WalkEnded == (pc = "for" /\ seg_i = Len(db.segs)) \/ pc \in {"done", "crashed"}

\* C4: a routine whose analysis raises is the only one skipped: when the walk
\* has ended every routine it met has been analysed, the routines folded into
\* the totals are exactly those whose analysis completes, whatever failed
\* before them; and the run always reaches collect_final_metrics.
C4_SkipsOnlyFailing ==
    /\ [](WalkEnded =>
            /\ \A a \in FirstVisits : get_func_name(db, a) \in DOMAIN functions
            /\ totals.total_func_count = Cardinality({a \in FirstVisits : ~Raises(a)})
            /\ totals.total_loc_count =
                  SumSeq([i \in 1..Cardinality({a \in FirstVisits : ~Raises(a)}) |->
                            functions[get_func_name(db,
                                SortedSeq({a \in FirstVisits : ~Raises(a)})[i])].loc_count]))
    /\ <>(pc \in {"done", "crashed"})

\* a run in which a routine completed after another had raised
C4_Witness ==
    /\ pc = "done"
    /\ \E a, b \in FirstVisits : a < b /\ Raises(a) /\ ~Raises(b)
    /\ totals.total_loc_count > 0

\* the metrics that are zero in record m; ABC holds the radicand, a product
\* is zero when a factor is
ZeroMetrics(m) ==
    {k \in metrics_list :
        \/ k = "loc" /\ m.loc_count = 0
        \/ k = "bbls" /\ m.bbl_count = 0
        \/ k = "calls" /\ m.calls_count = 0
        \/ k = "condit" /\ m.condition_count = 0
        \/ k = "assign" /\ m.assign_count = 0
        \/ k = "cc" /\ m.CC = 0
        \/ k = "cc_mod" /\ m.CC_modified = 0
        \/ k = "jilb" /\ m.CL = RatZero
        \/ k = "abc" /\ m.ABC = 0
        \/ k = "pi" /\ m.Pivovarsky = 0
        \/ k = "h" /\ m.Halstead_basic = NewHalstead
        \/ k = "harr" /\ m.Harrison = 0
        \/ k = "bound" /\ m.boundary_values = 0
        \/ k = "span" /\ m.span_metric = 0
        \/ k = "global" /\ m.global_vars_metric = RatZero /\ m.global_vars_access = 0
        \/ k = "oviedo" /\ m.Oviedo = 0
        \/ k = "chepin" /\ m.Chepin = RatZero
        \/ k = "c&s" /\ m.CardnGlass = RatZero
        \/ k = "h&c" /\ m.HenrynCafura = 0 /\ m.fan_in_i = 0 /\ m.fan_in_s = 0
                     /\ m.fan_out_i = 0 /\ m.fan_out_s = 0
        \/ k = "cocol" /\ m.Cocol = [B |-> ZeroProd, add |-> 0]}

\* the metrics whose module total is zero
ZeroTotals(t) ==
    {k \in metrics_list :
        \/ k = "loc" /\ t.total_loc_count = 0
        \/ k = "bbls" /\ t.total_bbl_count = 0
        \/ k = "calls"
        \/ k = "condit" /\ t.total_condition_count = 0
        \/ k = "assign" /\ t.total_assign_count = 0
        \/ k = "cc" /\ t.CC_total = 0
        \/ k = "cc_mod" /\ t.CC_modified_total = 0
        \/ k = "jilb" /\ t.CL_total = RatZero
        \/ k = "abc" /\ t.ABC_total = EmptyDict
        \/ k = "pi" /\ t.Pivovarsky_total = 0
        \/ k = "h" /\ t.Halstead_total = NewHalstead
        \/ k = "harr" /\ t.Harrison_total = 0
        \/ k = "bound" /\ t.boundary_values_total = 0
        \/ k = "span" /\ t.span_metric_total = 0
        \/ k = "global" /\ t.global_vars_metric_total = RatZero
        \/ k = "oviedo" /\ t.Oviedo_total = 0
        \/ k = "chepin" /\ t.Chepin_total = RatZero
        \/ k = "c&s" /\ t.CardnGlass_total = RatZero
        \/ k = "h&c" /\ t.HenrynCafura_total = 0
        \/ k = "cocol" /\ t.Cocol_total = [B |-> ZeroProd, add |-> 0]}

\* the metrics the mask leaves out
Unselected == {k \in metrics_list : metrics_mask[k] = 0}

\* C5, as claimed: every metric whose mask bit is 0 keeps its zero default in
\* the record of every routine and adds nothing to the module total.
C5_UnselectedZero ==
    /\ \A n \in DOMAIN functions : Unselected \subseteq ZeroMetrics(functions[n])
    /\ Unselected \subseteq ZeroTotals(totals)

\* the metrics computed only when their own bit is set, and those another bit
\* computes as well
OwnBit == {"cc_mod", "jilb", "abc", "pi", "harr", "bound", "span",
           "oviedo", "chepin", "c&s", "cocol"}
Gated ==
    {k \in Unselected :
        \/ k \in OwnBit
        \/ k = "cc" /\ metrics_mask["cocol"] = 0
        \/ k = "h" /\ metrics_mask["cocol"] = 0
        \/ k = "h&c" /\ metrics_mask["c&s"] = 0}

\* the positions in the operand list of an instruction that access a global
\* variable: the operands of type o_mem whose datum has more than one data
\* reference and whose text has no "__"
GlobalAccessesAt(h, ops) ==
    {i \in 0..(Len(ops) - 1) :
        /\ ops[i + 1].type = o_mem
        /\ is_var_global(get_operand_value(db, h, i), DataRefsTo(db, h, i))
        /\ ~SubSeqOf(<<"_", "_">>, ops[i + 1].text)}

\* the accesses to global variables in the routine analysed last, outside
\* calls and conditional branches
GlobalAccesses ==
    UNION {{<<h, i>> : i \in GlobalAccessesAt(h, get_instr_operands(db, h))} :
             h \in {a \in CurHeads :
                      GetInstructionType(db, CurRoutine.start, CurRoutine.end, a)
                          \notin {"CONDITIONAL_BRANCH", "CALL"}}}

\* C5, amended: the counts loc, bbls, calls, condit and assign and the count
\* of accesses to global variables are computed whatever the mask says;
\* cc_mod, jilb, abc, pi, harr, bound, span, oviedo, chepin, c&s and cocol
\* stay zero in every routine record and in the module total when their bit
\* is 0; cc and h stay zero when their bit and cocol are 0, h&c when its bit
\* and c&s are 0; with the bit of global 0 the ratio of global accesses stays
\* zero in every record and in the module total, while the record of a
\* routine that completed holds the number of its accesses.
C5_GatedZero ==
    /\ \A n \in DOMAIN functions : Gated \subseteq ZeroMetrics(functions[n])
    /\ Gated \subseteq ZeroTotals(totals)
    /\ metrics_mask["global"] = 0 =>
          /\ \A n \in DOMAIN functions : functions[n].global_vars_metric = RatZero
          /\ totals.global_vars_metric_total = RatZero
          /\ (cur.fea # BADADDR /\ cur.o.raised = "") =>
                \A accesses \in {Cardinality(GlobalAccesses)} :
                    /\ cur.o.m.global_vars_access = accesses
                    /\ functions[CurName].global_vars_access = accesses

\* a finished run under a mask that selects some metrics and leaves out
\* others, global among them, two of which would not be zero for the routine
\* analysed last had they been selected; the routine accesses a global
\* variable
C5_Witness ==
    /\ pc = "done" /\ cur.fea # BADADDR /\ cur.o.raised = ""
    /\ Unselected # metrics_list
    /\ metrics_mask["global"] = 0 /\ cur.o.m.global_vars_access > 0
    /\ \E o \in StartAnalysis(db, cur.fea, AllOn, EmptyDict) :
          o.raised = "" /\ Cardinality(Gated \ ZeroMetrics(o.m)) >= 2

\* what record m holds for the metric a selector names
MetricValue(m, k) ==
    CASE k = "loc" -> m.loc_count
      [] k = "bbls" -> m.bbl_count
      [] k = "calls" -> m.calls_count
      [] k = "condit" -> m.condition_count
      [] k = "assign" -> m.assign_count
      [] k = "cc" -> m.CC
      [] k = "cc_mod" -> m.CC_modified
      [] k = "jilb" -> m.CL
      [] k = "abc" -> m.ABC
      [] k = "pi" -> m.Pivovarsky
      [] k = "h" -> m.Halstead_basic
      [] k = "harr" -> m.Harrison
      [] k = "bound" -> m.boundary_values
      [] k = "span" -> m.span_metric
      [] k = "global" -> m.global_vars_metric
      [] k = "oviedo" -> m.Oviedo
      [] k = "chepin" -> m.Chepin
      [] k = "c&s" -> m.CardnGlass
      [] k = "h&c" -> m.HenrynCafura
      [] k = "cocol" -> m.Cocol

\* the analyses of the routine analysed last that end without an exception
\* when every metric is selected
FullAnalyses ==
    {o \in StartAnalysis(db, cur.fea, AllOn, EmptyDict) : o.raised = ""}

\* C20, as claimed: the value of a metric does not depend on which other
\* metrics are selected: what the first routine of a module gets for a metric
\* the mask selects is what it gets for it when every metric is selected.
C20_MaskIndependent ==
    (/\ cur.fea # BADADDR /\ cur.o.raised = "" /\ cur.o.m.function_name # ""
     /\ Cardinality(DOMAIN functions) = 1 /\ FullAnalyses # {}) =>
        \E o \in FullAnalyses : \A k \in metrics_list \ Unselected :
            MetricValue(cur.o.m, k) = MetricValue(o.m, k)

\* the analyses of the routine analysed last under the mask of the run with
\* chepin taken out
WithoutChepin ==
    {o \in StartAnalysis(db, cur.fea, [metrics_mask EXCEPT !["chepin"] = 0], EmptyDict) :
        o.raised = ""}

\* C21, as claimed: get_chepin leaves the routine's table of local variables
\* as it found it, so the fan-in and fan-out counts and the Henry and Cafura
\* and Card and Glass values of the first routine of a module are those of an
\* analysis in which Chepin is not evaluated.
C21_ChepinPure ==
    (/\ cur.fea # BADADDR /\ cur.o.raised = "" /\ cur.o.m.function_name # ""
     /\ Cardinality(DOMAIN functions) = 1
     /\ metrics_mask["chepin"] = 1 /\ metrics_mask["c&s"] = 1) =>
        /\ cur.o.chepin.local_vars = cur.o.vars_local
        /\ \E o \in WithoutChepin :
              /\ o.m.HenrynCafura = cur.o.m.HenrynCafura
              /\ o.m.CardnGlass = cur.o.m.CardnGlass
              /\ o.m.fan_in_i = cur.o.m.fan_in_i /\ o.m.fan_out_i = cur.o.m.fan_out_i
              /\ o.m.fan_in_s = cur.o.m.fan_in_s /\ o.m.fan_out_s = cur.o.m.fan_out_s

\* C22, as claimed: the state the routines share is written only when an
\* analysis has completed: a step in which the analysis of a routine raises
\* leaves global_vars_dict and the totals as they were.
C22_AbortLeavesShared ==
    [][RoutineFails => (global_vars_dict' = global_vars_dict /\ totals' = totals)]_vars

\* the routines recorded whose analysis completed
Completed ==
    {n \in DOMAIN functions :
        \A a \in DOMAIN outcomes :
            get_func_name(db, a) = n => \A o \in outcomes[a] : o.raised = ""}

\* the sum of the rationals f holds for the members of S
RatOver(f, S) ==
    LET q == SetToSeq(S)
    IN  RatSum([i \in 1..Len(q) |-> f[q[i]]])

\* the totals that are integers are the sums of their fields over the
\* routines of done
IntegerTotals(done) ==
    /\ totals.total_loc_count = SumOver([n \in done |-> functions[n].loc_count], done)
    /\ totals.total_bbl_count = SumOver([n \in done |-> functions[n].bbl_count], done)
    /\ totals.total_condition_count =
          SumOver([n \in done |-> functions[n].condition_count], done)
    /\ totals.total_assign_count =
          SumOver([n \in done |-> functions[n].assign_count], done)
    /\ totals.CC_total = SumOver([n \in done |-> functions[n].CC], done)
    /\ totals.CC_modified_total =
          SumOver([n \in done |-> functions[n].CC_modified], done)
    /\ totals.Pivovarsky_total =
          SumOver([n \in done |-> functions[n].Pivovarsky], done)
    /\ totals.Harrison_total = SumOver([n \in done |-> functions[n].Harrison], done)
    /\ totals.boundary_values_total =
          SumOver([n \in done |-> functions[n].boundary_values], done)
    /\ totals.span_metric_total =
          SumOver([n \in done |-> functions[n].span_metric], done)
    /\ totals.Oviedo_total = SumOver([n \in done |-> functions[n].Oviedo], done)
    /\ totals.HenrynCafura_total =
          SumOver([n \in done |-> functions[n].HenrynCafura], done)

\* the Halstead totals are the sums of the counts of the routines of done
HalsteadTotals(done) ==
    /\ totals.Halstead_total.n1 =
          SumOver([n \in done |-> functions[n].Halstead_basic.n1], done)
    /\ totals.Halstead_total.n2 =
          SumOver([n \in done |-> functions[n].Halstead_basic.n2], done)
    /\ totals.Halstead_total.N1 =
          SumOver([n \in done |-> functions[n].Halstead_basic.N1], done)
    /\ totals.Halstead_total.N2 =
          SumOver([n \in done |-> functions[n].Halstead_basic.N2], done)

\* C25: at every point of a run each summed total is the sum of its field
\* over the routines whose analysis completed, and of no other; the routine
\* count is their number; and once collect_final_metrics has run, the average
\* LOC is the total LOC divided by the count when the count is positive.
C25_TotalsAreSums ==
    /\ \A done \in {Completed} :
          /\ IntegerTotals(done)
          /\ HalsteadTotals(done)
          /\ totals.Chepin_total = RatOver([n \in done |-> functions[n].Chepin], done)
          /\ totals.CardnGlass_total =
                RatOver([n \in done |-> functions[n].CardnGlass], done)
          /\ totals.total_func_count = Cardinality(done)
    /\ (pc \in {"done", "crashed"} /\ totals.total_func_count > 0) =>
          /\ totals.average_loc_count[1] * totals.total_func_count
                = totals.total_loc_count * totals.average_loc_count[2]
          /\ totals.average_loc_count = Rat(totals.total_loc_count, totals.total_func_count)

\* a finished run with two completed routines and one that failed, whose
\* total LOC is no multiple of the count
C25_Witness ==
    /\ pc = "done"
    /\ Cardinality(Completed) >= 2
    /\ DOMAIN functions # Completed
    /\ totals.total_loc_count % totals.total_func_count # 0
    /\ totals.Oviedo_total > 0

\* the names of the routines of the database
RoutineNames == {db.funcs[i].name : i \in 1..Len(db.funcs)}

\* C29, as claimed: a routine is analysed and folded into the totals at most
\* once although the walk starts again in every segment, so the entries
\* recorded and the routine count of the module never exceed the number of
\* distinct routines.
C29_CountWithinRoutines ==
    /\ Cardinality(DOMAIN functions) <= Cardinality(RoutineNames)
    /\ totals.total_func_count <= Cardinality(RoutineNames)

\* no instruction of the routine analysed last records an operand
CurOperandFree ==
    \A h \in CurHeads :
        \/ get_instr_operands(db, h) = <<>>
        \/ GetInstructionType(db, CurRoutine.start, CurRoutine.end, h)
              \in {"CONDITIONAL_BRANCH", "CALL"}

\* the exceptions of the control-flow loop and of make_graph
BuildErrors == {"Invalid reference for head", "Cthulhu has awakened",
                "Error when creating node graph"}

\* the exceptions of get_function_args_count: int() of an operand that is no
\* number, and the second operand of an "add" that has one
ArgsErrors == {"invalid literal for int() with base 16", "list index out of range"}

\* a routine without operands (n2 = 0) has been analysed with Halstead
\* selected
C8_Case ==
    /\ cur.fea # BADADDR
    /\ metrics_mask["h"] = 1 \/ metrics_mask["cocol"] = 1
    /\ CurOperandFree

\* the routine analysed last completed with N1 and n1 set and the difficulty
\* and the values derived from it 0; the metrics after Halstead are computed
\* (Oviedo is the edge count, Henry and Cafura at least the complexity) and
\* the routine is folded into the totals
C8_Folded ==
    /\ cur.o.raised = ""
    /\ cur.o.m.Halstead_basic =
          [NewHalstead EXCEPT !.N1 = cur.o.m.loc_count,
                              !.n1 = Cardinality({db.ins[h].mnem : h \in CurHeads})]
    /\ metrics_mask["oviedo"] = 1 => cur.o.m.Oviedo = Cardinality(cur.o.edges)
    /\ metrics_mask["h&c"] = 1 /\ metrics_mask["cc"] = 1 =>
          cur.o.m.HenrynCafura >= cur.o.m.CC /\ cur.o.m.CC >= 1
    /\ CurName \in DOMAIN functions
    /\ functions[CurName].Halstead_basic = cur.o.m.Halstead_basic
    /\ totals.total_func_count >= 1
    /\ totals.total_loc_count >= cur.o.m.loc_count
    /\ totals.Halstead_total.n1 >= cur.o.m.Halstead_basic.n1

\* an instruction that refers to the routine analysed last is followed by
\* one whose disassembly has "add"
CalledBeforeAdd ==
    \E c \in 0..(db.top - 1) :
        /\ cur.fea \in CodeRefsFrom(db, c)
        /\ next_head(db, c, BADADDR) \in 1..(db.top - 1)
        /\ SubSeqOf(Spell["add"], GetDisasm(db, next_head(db, c, BADADDR)))


\* C9, as claimed: collect_final_metrics never ends with an error.
C9_FinalNeverFails == pc # "crashed"

====
